---- MODULE Spec2Model ----
(***************************************************************************)
(* Verification model of EmpireCore:                                       *)
(*   - GameState movement tracking (state/manager.py),                     *)
(*   - SFSConnection waiters and packet dispatch (network/connection.py),  *)
(*   - the Request API's send/wait ordering (client/client.py,             *)
(*     client/actions.py).                                                 *)
(***************************************************************************)
EXTENDS Integers, FiniteSets, Sequences, Bags, TLC

(***************************************************************************)
(* Bounds of the model.                                                    *)
(***************************************************************************)
\* movement ids are 1..MaxMid
MaxMid == 2

\* futures (wait_for calls) per run
MaxFutures == 2
\* inbound packets dispatched per run
MaxPackets == 2
\* login() calls per run
MaxLogins == 2
\* handlers registered per run
MaxHandlers == 2
\* packets handed to _on_packet per run
MaxSubPackets == 2
\* tasks that call send()
MaxSenders == 2
\* entries of a dcl's building list AC
MaxBuildings == 2
\* dcl packets per run
MaxDcl == 2
\* player ids are 1..MaxPid, area ids 1..MaxArea
MaxPid == 2
MaxArea == 2
\* gold (gcu C1) is 1..MaxGold
MaxGold == 1
\* gbd packets per run
MaxGbd == 3
\* the objects of a scanned map lie within MaxSpread chunks of the start
MaxSpread == 1
\* accounts of the pool
MaxAccounts == 2
\* concurrent callers of lease_account
MaxLeasers == 2
\* tasks in the build queue
MaxTasks == 3
\* castles of the player
MaxCastle == 2
\* priorities of a build task: 0..MaxPriority
MaxPriority == 1
\* the clock of the scheduler: 0..MaxNow
MaxNow == 3
\* intervals of scheduled tasks: 1..MaxInterval
MaxInterval == 2
\* unit types of a dcl
MaxUnitId == 1
\* units of one type in a castle
MaxCount == 1
\* frames that fail to decode per run
MaxMalformed == 2
\* ticks of the clock per run
MaxClock == 3
\* Movement.TT is MaxTime, Movement.PT is 0..MaxTime + 1
MaxTime == 1
\* the CD (seconds) of a cooldown payload is 0..MaxCD
MaxCD == 2

Mids == 1..MaxMid

(***************************************************************************)
(* Movement values (state/world_models.py).                                *)
(***************************************************************************)
\* Movement.T of a return movement
TypeReturn == 11
\* Movement.T of an attack, the only member of the attack-type set modelled
TypeAttack == 0
\* Movement.T of a movement that is neither (a transport)
TypeOther == 2
MovementTypes == {TypeAttack, TypeOther, TypeReturn}
\* Movement.D: 0 = towards the local player, 1 = away from it
Directions == {0, 1}

\* A parsed Movement: the fields the handlers and the classification read.
Movement == [T : MovementTypes, D : Directions]

\* Movement.is_incoming
is_incoming(m) == m.T # TypeReturn /\ m.D = 0

\* Movement.is_outgoing
is_outgoing(m) == m.T # TypeReturn /\ m.D = 1

\* Movement.is_attack: the type belongs to the attack-type set (11 does not)
is_attack(m) == m.T \in {TypeAttack}

(***************************************************************************)
(* Packet payloads.  An entry of a gam/mov list is the raw m_data of one   *)
(* movement: ok = FALSE is data that the Movement constructor rejects.     *)
(***************************************************************************)
\* One entry per class the handlers tell apart: an incoming attack, an attack
\* that is not incoming, an incoming non-attack, a return, and rejected data.
MovementData ==
    { [T |-> TypeAttack, D |-> 0, ok |-> TRUE],
      [T |-> TypeAttack, D |-> 1, ok |-> TRUE],
      [T |-> TypeOther,  D |-> 0, ok |-> TRUE],
      [T |-> TypeReturn, D |-> 0, ok |-> TRUE],
      [T |-> TypeOther,  D |-> 0, ok |-> FALSE] }

\* The M list of a payload, keyed by MID (a server list names each id once).
MovementLists == UNION {[S -> MovementData] : S \in SUBSET Mids}

\* MID of an atv/ata/cam payload; 0 stands for a payload without MID.
NoMid == 0
PayloadMids == Mids \cup {NoMid}

VARIABLES
    movements,              \* GameState.movements: MID -> Movement
    previous_movement_ids,  \* GameState._previous_movement_ids
    packet,                 \* the packet handled last: [cmd, via, mids]
    events                  \* the events the last handler call returned

movVars == <<movements, previous_movement_ids, packet, events>>

(***************************************************************************)
(* SFSConnection (network/connection.py): the socket, the read task, the   *)
(* waiter table and the futures handed to the callers of wait_for.         *)
(***************************************************************************)
\* The commands and the payload tags of inbound packets, and the predicates
\* a waiter can carry: the default (accept any) and one that accepts a single
\* tag.
Commands == {"gam", "lli"}
Tags == {"a", "b"}
Predicates == {"any", "only_a"}

\* predicate(packet) inside the try of _dispatch_packet (a predicate that
\* raises is logged and its waiter is left alone, as one that returns False).
Accepts(pred, pkt) ==
    \/ pred = "any"
    \/ pred = "only_a" /\ pkt.tag = "a"

VARIABLES
    ws,             \* _ws: "none", "open", or "closed" (set, but closed)
    session,        \* _session is set
    read_task,      \* _read_task: "none", "running", "done"
    reader,         \* the read task's position: "loop" or "handler"
    closer,         \* the position of the closing code (see below)
    futures,        \* the futures created by create_waiter, in creation order
    waiters,        \* _waiters: command -> set of (future index, predicate)
    last_packet,    \* the packet dispatched last
    dispatched,     \* packets dispatched so far (the last one's number)
    handled,        \* number of the last packet whose packet_handler returned
    on_close_task,  \* the on_close task spawned by the read loop has not run
    disconnecting   \* a disconnect() call is in progress

sockVars == <<ws, session, read_task, closer, on_close_task, disconnecting>>
futVars == <<futures, waiters>>
pktVars == <<last_packet, dispatched, handled, reader>>
connVars == <<sockVars, futVars, pktVars>>

\* The request API call in progress (EmpireClient.send, get_movements,
\* _send_command_action with a wait): see NoCall below.
VARIABLES call

reqVars == <<call>>

\* EmpireClient.login (client/client.py): see the login section below.
VARIABLES
    login_pc,       \* "idle", or the response login() is waiting for
    frames,         \* the frames the current login() call has sent, in order
    obtained,       \* the outcomes of its waits, in order
    lli_response,   \* the lli response it obtained last
    login_result,   \* how the last login() call ended
    is_logged_in,   \* EmpireClient.is_logged_in
    logins          \* login() calls so far

loginVars == <<login_pc, frames, obtained, lli_response, login_result,
               is_logged_in, logins>>

\* EmpireClient._handlers and the handler calls of _on_packet
\* (client/client.py): see the subscriber section below.
VARIABLES
    handlers,       \* _handlers: command -> list of handlers, in registration order
    calls,          \* the handler calls so far: [pkt, handler, raised], in order
    on_packet,      \* the packet _on_packet was called with last, and how it ended
    sub_dispatched  \* packets _on_packet was called with so far

subVars == <<handlers, calls, on_packet, sub_dispatched>>

\* One castle of GameState.castles under _handle_dcl (state/manager.py) and a
\* thread that reads it: see the castle section below.
VARIABLES
    castle,     \* the castle: [wood, buildings, units]
    army,       \* GameState.armies[aid].units
    dcl_pc,     \* where _handle_dcl stands: "idle", "clear", "append", "units"
    dcl_data,   \* castle_data of the dcl being applied: [W, AC, UN]
    dcl_k,      \* the next entry of AC to append
    dcl_todo,   \* the keys of UN not yet stored
    boundary,   \* the castle and army when the dcl being applied began
    observed,   \* what the reading thread saw last
    dcl_count   \* dcl packets so far

dclVars ==
    <<castle, army, dcl_pc, dcl_data, dcl_k, dcl_todo, boundary, observed,
      dcl_count>>

\* The tasks that call SFSConnection.send (network/connection.py): see the
\* send section below.
VARIABLES
    sender      \* per task, where its send() call stands

sendVars == <<sender>>

\* History of create_waiter, kept to state what becomes of a waiter that was
\* created while the connection was closed.
VARIABLES
    made_closed \* the futures created while `not self.connected`

histVars == <<made_closed>>

\* Movement.created_at of the tracked movements and the clock that stamps
\* them (state/manager.py): see the created_at section below.
VARIABLES
    created_at, \* movement id -> Movement.created_at
    now         \* time.time(), in ticks

stampVars == <<created_at, now>>

\* Movement.PT and Movement.TT of the tracked movements.
VARIABLES
    progress    \* movement id -> [PT, TT]

progVars == <<progress>>

\* The players and castles of GameState under gbd and dcl packets
\* (state/manager.py): see the gbd section below.
VARIABLES
    players,        \* GameState.players: pid -> [gold, castles: area -> ref]
    local_player,   \* GameState.local_player: a pid, or NoPlayer for None
    castles,        \* GameState.castles: area id -> ref of a Castle object
    objects,        \* the Castle objects in reach: ref -> [N, wood]
    gbd_last,       \* the packet applied last
    gbd_count       \* gbd packets so far

gbdVars == <<players, local_player, castles, objects, gbd_last, gbd_count>>

\* login() against a server that answers every frame (client/client.py,
\* network/connection.py): see the handshake section below.
VARIABLES
    registered,     \* the waiter of the wait login() is at is in the table
    reply           \* the server's reply to the last frame: "no" (not
                    \* dispatched yet), "delivered" (to the waiter) or
                    \* "missed" (dispatched while no waiter was registered)

hsVars == <<registered, reply>>

\* Units of the castles and the armies of the store (state/manager.py).
VARIABLES
    units,          \* castle.units of every Castle object in reach
    armies          \* GameState.armies: area id -> units of the Army

armyVars == <<units, armies>>

\* The client over its connection (client/client.py): see the session
\* section below.
VARIABLES
    hook_ran        \* _on_disconnect has run since the last connect

sessVars == <<hook_ran>>

\* BuildingManager (automation/building_queue.py): see the build section.
VARIABLES
    queue,          \* BuildingManager.queue
    in_progress     \* BuildingManager.in_progress: castle id -> active task

buildVars == <<queue, in_progress>>

\* TaskScheduler (automation/scheduler.py): see the scheduler section.
VARIABLES
    tasks,          \* TaskScheduler.tasks: name -> ScheduledTask
    checked_at,     \* `now` of the last _check_tasks
    invoked,        \* the tasks whose callback that check called
    failed          \* those of them whose callback raised

schedVars == <<tasks, checked_at, invoked, failed>>

\* AccountPool (automation/multi_account.py): see the pool section below.
VARIABLES
    busy_accounts,  \* _busy_accounts: usernames in use
    clients,        \* _clients: username -> the caller whose client is cached
    lease           \* per caller of lease_account: where it is, see NoLease

poolVars == <<busy_accounts, clients, lease>>

\* Frames that Packet.from_bytes could not decode (network/connection.py).
VARIABLES
    malformed,      \* frames that failed to decode so far
    dropped_at      \* the value of dispatched when the last of them came

frameVars == <<malformed, dropped_at>>

\* EmpireClient.send(request, wait=True): how the last call ended.
VARIABLES
    returned        \* answer: call.answer at the return; status: of the
                    \* call's future; value: "response", "None" or "raised"

retVars == <<returned>>

\* EmpireClient.scan_kingdom (client/client.py): see the scan section below.
VARIABLES
    scan_pc,            \* "idle", "running" (at the head of the loop),
                        \* "waiting" (for the batch), "done"
    content,            \* the chunks of the map that hold an object
    current_wave,       \* the chunks of the wave to request next
    visited,            \* the chunks requested so far
    valid_chunks,       \* the chunks requested in the current wave
    pending_chunks,     \* the chunks of the batch not answered yet
    chunk_responses,    \* the chunks that answered with content
    requests,           \* the requests sent, a bag of chunks (total_requests
                        \* is its size)
    bounded,            \* min_x_bounded, max_x_bounded, min_y_bounded, max_y_bounded
    waves_processed,    \* waves requested and answered
    collected_items,    \* the objects collected, by chunk
    timed_out           \* the overall timeout ended the scan

scanVars ==
    <<scan_pc, content, current_wave, visited, valid_chunks, pending_chunks,
      chunk_responses, requests, bounded, waves_processed,
      collected_items, timed_out>>

\* The client's state outside the store, the connection and the request API.
cliVars == <<loginVars, subVars, dclVars, sendVars, histVars,
    stampVars,
    progVars,
    gbdVars,
    scanVars,
    retVars,
    frameVars,
    poolVars,
    hsVars,
    armyVars,
    sessVars,
    buildVars,
    schedVars>>

\* What the steps of login() and of _on_packet leave alone.
exceptLogin == <<movVars, connVars, reqVars, subVars, dclVars, sendVars, histVars,
    stampVars,
    progVars,
    gbdVars,
    scanVars,
    retVars,
    frameVars,
    poolVars,
    hsVars,
    armyVars,
    sessVars,
    buildVars,
    schedVars>>
exceptSession == <<movVars, reqVars, subVars, dclVars, sendVars, histVars,
    stampVars,
    progVars,
    gbdVars,
    scanVars,
    retVars,
    frameVars,
    poolVars,
    hsVars,
    armyVars,
    buildVars,
    schedVars>>
exceptSub == <<movVars, connVars, reqVars, loginVars, dclVars, sendVars, histVars,
    stampVars,
    progVars,
    gbdVars,
    scanVars,
    retVars,
    frameVars,
    poolVars,
    hsVars,
    armyVars,
    sessVars,
    buildVars,
    schedVars>>
exceptDcl == <<movVars, connVars, reqVars, loginVars, subVars, sendVars, histVars,
    stampVars,
    progVars,
    gbdVars,
    scanVars,
    retVars,
    frameVars,
    poolVars,
    hsVars,
    armyVars,
    sessVars,
    buildVars,
    schedVars>>

\* What send() leaves alone besides the connection, and what create_waiter
\* leaves alone besides the connection and its history.
exceptSend == <<movVars, reqVars, loginVars, subVars, dclVars, histVars,
    stampVars,
    progVars,
    gbdVars,
    scanVars,
    retVars,
    frameVars,
    poolVars,
    hsVars,
    armyVars,
    sessVars,
    buildVars,
    schedVars>>
exceptHist == <<movVars, reqVars, loginVars, subVars, dclVars, sendVars,
    stampVars,
    progVars,
    gbdVars,
    scanVars,
    retVars,
    frameVars,
    poolVars,
    hsVars,
    armyVars,
    sessVars,
    buildVars,
    schedVars>>

\* What the handlers leave alone besides the movements and, in turn, their
\* created_at or their PT and TT.
exceptStamp ==
    <<connVars, reqVars, loginVars, subVars, dclVars, sendVars, histVars,
    progVars,
    gbdVars,
    scanVars,
    retVars,
    frameVars,
    poolVars,
    hsVars,
    armyVars,
    sessVars,
    buildVars,
    schedVars>>
exceptProg ==
    <<connVars, reqVars, loginVars, subVars, dclVars, sendVars, histVars,
    stampVars,
    gbdVars,
    scanVars,
    retVars,
    frameVars,
    poolVars,
    hsVars,
    armyVars,
    sessVars,
    buildVars,
    schedVars>>

\* What _handle_gbd and _handle_dcl leave alone.
exceptGbd ==
    <<movVars, connVars, reqVars, loginVars, subVars, dclVars, sendVars,
    histVars, stampVars, progVars,
    scanVars,
    retVars,
    frameVars,
    poolVars,
    hsVars,
    armyVars,
    sessVars,
    buildVars,
    schedVars>>

exceptBuild ==
    <<movVars, connVars, reqVars, loginVars, subVars, dclVars, sendVars,
    histVars, stampVars, progVars, gbdVars,
    scanVars,
    retVars,
    frameVars,
    poolVars,
    hsVars,
    armyVars,
    sessVars,
    schedVars>>

exceptSched ==
    <<movVars, connVars, reqVars, loginVars, subVars, dclVars, sendVars,
    histVars, stampVars, progVars, gbdVars,
    scanVars,
    retVars,
    frameVars,
    poolVars,
    hsVars,
    armyVars,
    sessVars,
    buildVars>>

exceptArmy ==
    <<movVars, connVars, reqVars, loginVars, subVars, dclVars, sendVars,
    histVars, stampVars, progVars,
    scanVars,
    retVars,
    frameVars,
    poolVars,
    hsVars,
    sessVars,
    buildVars,
    schedVars>>

\* What login() and the replies to it leave alone.
exceptHandshake ==
    <<movVars, connVars, reqVars, subVars, dclVars, sendVars, histVars,
    stampVars, progVars, gbdVars, scanVars, retVars, frameVars, poolVars,
    armyVars,
    sessVars,
    buildVars,
    schedVars>>

\* What the AccountPool leaves alone.
exceptPool ==
    <<movVars, connVars, reqVars, loginVars, subVars, dclVars, sendVars,
    histVars, stampVars, progVars, gbdVars, scanVars, retVars, frameVars,
    hsVars,
    armyVars,
    sessVars,
    buildVars,
    schedVars>>

\* What a frame that fails to decode leaves alone, the connection aside.
exceptFrame ==
    <<movVars, reqVars, loginVars, subVars, dclVars, sendVars, histVars,
    stampVars, progVars, gbdVars, scanVars, retVars,
    poolVars,
    hsVars,
    armyVars,
    sessVars,
    buildVars,
    schedVars>>

\* What the return of EmpireClient.send leaves alone, the connection aside.
exceptSendCall ==
    <<movVars, loginVars, subVars, dclVars, sendVars, histVars, stampVars,
    progVars, gbdVars, scanVars,
    frameVars,
    poolVars,
    hsVars,
    armyVars,
    sessVars,
    buildVars,
    schedVars>>

\* What scan_kingdom leaves alone.
exceptScan ==
    <<movVars, connVars, reqVars, loginVars, subVars, dclVars, sendVars,
    histVars, stampVars, progVars, gbdVars,
    retVars,
    frameVars,
    poolVars,
    hsVars,
    armyVars,
    sessVars,
    buildVars,
    schedVars>>

vars == <<movVars, connVars, reqVars, cliVars>>

\* The packet handled last: its command, the entry point that handled it,
\* the movement ids its payload names and those among them with valid data.
Packet(cmd, via, mids, valid) ==
    [cmd |-> cmd, via |-> via, mids |-> mids, valid |-> valid]

\* the ids of a list whose data the Movement constructor accepts
ValidIds(list) == {m \in DOMAIN list : list[m].ok}

\* An event as the claims see it: its class and the movement id it carries.
Event(kind, mid) == [kind |-> kind, mid |-> mid]

\* dict[mid] = mov
Put(d, mid, mov) == [k \in DOMAIN d \cup {mid} |-> IF k = mid THEN mov ELSE d[k]]

\* dict.pop(mid, None) / del dict[mid]
Pop(d, mid) == [k \in DOMAIN d \ {mid} |-> d[k]]

\* GameState._parse_movement_from_data: the Movement of valid data.
ParseMovement(data) == [T |-> data.T, D |-> data.D]

(***************************************************************************)
(* GameState._handle_gam: every valid entry of the list is stored; nothing *)
(* is removed, no id set is touched, nothing is returned.                  *)
(***************************************************************************)
MovementsAfterGam(list) ==
    [k \in DOMAIN movements \cup ValidIds(list) |->
        IF k \in DOMAIN list /\ list[k].ok THEN ParseMovement(list[k])
        ELSE movements[k]]

HandleGam(list) ==
    /\ movements' = MovementsAfterGam(list)
    /\ UNCHANGED previous_movement_ids

(***************************************************************************)
(* GameState._handle_gam_with_events.                                      *)
(***************************************************************************)
\* current_movement_ids: every MID of the list, parsed or not
CurrentIds(list) == DOMAIN list

\* the entries with `is_new`
NewIds(list) == {m \in ValidIds(list) : m \notin previous_movement_ids}

\* removed_ids that still have a movement
RemovedIds(list) ==
    {m \in previous_movement_ids \ CurrentIds(list) : m \in DOMAIN movements}

\* the condition under which the attack alert is appended
AlertsAttack(mov) == is_incoming(mov) /\ is_attack(mov)

GamEvents(list) ==
    {Event("MovementStarted", m) : m \in NewIds(list)}
    \cup {Event("IncomingAttack", m) :
            m \in {n \in NewIds(list) : AlertsAttack(ParseMovement(list[n]))}}
    \cup {Event("MovementArrived", m) : m \in RemovedIds(list)}

MovementsAfterGamWithEvents(list) ==
    LET kept == (DOMAIN movements \ RemovedIds(list)) \cup ValidIds(list)
    IN  [k \in kept |->
            IF k \in DOMAIN list /\ list[k].ok THEN ParseMovement(list[k])
            ELSE movements[k]]

HandleGamWithEvents(list) ==
    /\ movements' = MovementsAfterGamWithEvents(list)
    /\ previous_movement_ids' = CurrentIds(list)
    /\ events' = GamEvents(list)
    /\ packet' = Packet("gam", "_handle_gam_with_events", DOMAIN list, ValidIds(list))

(***************************************************************************)
(* GameState._handle_mov / _process_single_movement_update.                *)
(***************************************************************************)
ProcessSingleMovementUpdate(mvs, prev, mid, data) ==
    IF ~data.ok THEN <<mvs, prev>>
    ELSE <<Put(mvs, mid, ParseMovement(data)),
           IF mid \in DOMAIN mvs THEN prev ELSE prev \cup {mid}>>

RECURSIVE ProcessMovementUpdates(_, _, _, _)
ProcessMovementUpdates(mvs, prev, list, todo) ==
    IF todo = {} THEN <<mvs, prev>>
    ELSE LET mid == CHOOSE m \in todo : \A n \in todo : m <= n
             one == ProcessSingleMovementUpdate(mvs, prev, mid, list[mid])
         IN  ProcessMovementUpdates(one[1], one[2], list, todo \ {mid})

HandleMov(list) ==
    LET res == ProcessMovementUpdates(movements, previous_movement_ids,
                                      list, DOMAIN list)
    IN  /\ movements' = res[1]
        /\ previous_movement_ids' = res[2]

(***************************************************************************)
(* GameState._handle_atv, _handle_ata, _handle_cam.                        *)
(***************************************************************************)
\* An arrival that drops the movement and keeps its id in the previous ids.
HandleAtvKeepsId(mid) ==
    /\ movements' = Pop(movements, mid)
    /\ UNCHANGED previous_movement_ids

HandleAtv(mid) ==
    IF mid = NoMid THEN UNCHANGED <<movements, previous_movement_ids>>
    ELSE /\ movements' = Pop(movements, mid)
         /\ previous_movement_ids' = previous_movement_ids \ {mid}

HandleAta(mid) ==
    IF mid # NoMid
    THEN /\ movements' = Pop(movements, mid)
         /\ previous_movement_ids' = previous_movement_ids \ {mid}
    ELSE UNCHANGED <<movements, previous_movement_ids>>

HandleCam(mid, success) ==
    IF mid # NoMid /\ success
    THEN /\ movements' = Pop(movements, mid)
         /\ previous_movement_ids' = previous_movement_ids \ {mid}
    ELSE UNCHANGED <<movements, previous_movement_ids>>

(***************************************************************************)
(* GameState.update_from_packet: the router.  None of its handlers returns *)
(* or emits an event.                                                      *)
(***************************************************************************)
UpdateFromPacketGam ==
    \E list \in MovementLists :
        /\ HandleGam(list)
        /\ events' = {}
        /\ packet' = Packet("gam", "update_from_packet", DOMAIN list, ValidIds(list))

UpdateFromPacketMov ==
    \E list \in MovementLists :
        /\ HandleMov(list)
        /\ events' = {}
        /\ packet' = Packet("mov", "update_from_packet", DOMAIN list, ValidIds(list))

UpdateFromPacketAtv ==
    \E mid \in PayloadMids :
        /\ HandleAtv(mid)
        /\ events' = {}
        /\ packet' = Packet("atv", "update_from_packet", {mid} \ {NoMid}, {mid} \ {NoMid})

UpdateFromPacketAta ==
    \E mid \in PayloadMids :
        /\ HandleAta(mid)
        /\ events' = {}
        /\ packet' = Packet("ata", "update_from_packet", {mid} \ {NoMid}, {mid} \ {NoMid})

UpdateFromPacketCam ==
    \E mid \in PayloadMids, success \in BOOLEAN :
        /\ HandleCam(mid, success)
        /\ events' = {}
        /\ packet' = Packet("cam", "update_from_packet", {mid} \ {NoMid}, {mid} \ {NoMid})

GamWithEvents == \E list \in MovementLists : HandleGamWithEvents(list)

\* SFSConnection.connected
connected == ws = "open"

FutureIds == 1..Len(futures)

\* A done() that is blind to the timeout's cancellation.
DoneUnlessCancelled(fut) == fut.status \in {"result", "exception"}

\* fut.done()
Done(fut) == fut.status # "pending"

\* A future of create_waiter.  status: "pending", "result" (set_result),
\* "cancelled" (the timeout of wait_for cancelled it), "exception"
\* (set_exception(CancelledError("Connection closed"))).  result is the number
\* of the packet it was resolved with, completions counts the calls that
\* completed it, cleaned and resumed say that its done callback has run and
\* that its awaiter has resumed.
NewFuture ==
    [status |-> "pending", result |-> 0, completions |-> 0,
     cleaned |-> FALSE, resumed |-> FALSE]

\* fut.set_result(packet)
SetResult(fut, seq) ==
    [fut EXCEPT !.status = "result", !.result = seq,
                !.completions = fut.completions + 1]

\* fut.set_exception(asyncio.CancelledError("Connection closed"))
SetException(fut) ==
    [fut EXCEPT !.status = "exception", !.completions = fut.completions + 1]

\* fut.cancel(), as asyncio.wait_for does when the timeout elapses
Cancel(fut) ==
    [fut EXCEPT !.status = "cancelled", !.completions = fut.completions + 1]

\* The entries (fut, predicate) of every bucket of _waiters.
Entries(tbl) == UNION {tbl[c] : c \in DOMAIN tbl}

\* The entries of the bucket of a command (none when there is no bucket).
Bucket(tbl, cmd) == IF cmd \in DOMAIN tbl THEN tbl[cmd] ELSE {}

\* SFSConnection.create_waiter: the entry (fut, predicate) is added to the
\* command's bucket, connected or not.
AddWaiter(tbl, cmd, entry) ==
    [c \in DOMAIN tbl \cup {cmd} |->
        IF c = cmd THEN Bucket(tbl, c) \cup {entry} ELSE tbl[c]]

\* A done callback that discards the entry and keeps the bucket it emptied.
CleanupKeepsBucket(tbl, i) ==
    [c \in DOMAIN tbl |-> {e \in tbl[c] : e.fut # i}]

\* create_waiter._cleanup, the done callback of future i: its entry is
\* discarded and a bucket left empty is deleted (a bucket that is gone is
\* the KeyError the callback ignores).
CleanupWaiter(tbl, i) ==
    LET rest == [c \in DOMAIN tbl |-> {e \in tbl[c] : e.fut # i}]
    IN  [c \in {d \in DOMAIN tbl : rest[d] # {}} |-> rest[c]]

\* SFSConnection.wait_for: create_waiter, then await the future.
WaitFor ==
    \E cmd \in Commands, pred \in Predicates :
        /\ Len(futures) < MaxFutures
        /\ futures' = Append(futures, NewFuture)
        /\ waiters' = AddWaiter(waiters, cmd,
                                [fut |-> Len(futures) + 1, pred |-> pred])
        /\ UNCHANGED <<sockVars, pktVars>>

\* The timeout of asyncio.wait_for elapses on a pending future.
Timeout(i) ==
    /\ i \in FutureIds
    /\ ~Done(futures[i])
    /\ futures' = [futures EXCEPT ![i] = Cancel(@)]
    /\ UNCHANGED <<sockVars, pktVars, waiters>>

\* The event loop runs the done callback of a completed future.
Cleanup(i) ==
    /\ i \in FutureIds
    /\ Done(futures[i])
    /\ ~futures[i].cleaned
    /\ futures' = [futures EXCEPT ![i].cleaned = TRUE]
    /\ waiters' = CleanupWaiter(waiters, i)
    /\ UNCHANGED <<sockVars, pktVars>>

\* The caller of wait_for resumes with the outcome of its future (the done
\* callbacks run in the order they were added: _cleanup first).
Resume(i) ==
    /\ i \in FutureIds
    /\ futures[i].cleaned
    /\ ~futures[i].resumed
    /\ futures' = [futures EXCEPT ![i].resumed = TRUE]
    /\ UNCHANGED <<sockVars, pktVars, waiters>>

\* The futures _dispatch_packet gives the packet to: those of the entries of
\* the packet's bucket that are not done and whose predicate accepts it.
Notified(pkt) ==
    {e.fut : e \in {w \in Bucket(waiters, pkt.cmd) :
                        ~Done(futures[w.fut]) /\ Accepts(w.pred, pkt)}}

\* A dispatch that gives the packet to the first match in registration order
\* only.
NotifyFirstMatch(pkt, seq) ==
    [i \in FutureIds |->
        IF i \in Notified(pkt) /\ \A j \in Notified(pkt) : i <= j
        THEN SetResult(futures[i], seq)
        ELSE futures[i]]

\* SFSConnection._dispatch_packet, step 1
NotifyWaiters(pkt, seq) ==
    [i \in FutureIds |->
        IF i \in Notified(pkt) THEN SetResult(futures[i], seq) ELSE futures[i]]

\* The read loop receives the frame of a packet and _dispatch_packet runs up
\* to `await self.packet_handler(packet)`.
Dispatch(pkt) ==
    /\ read_task = "running" /\ reader = "loop" /\ closer = "idle"
    /\ connected
    /\ dispatched < MaxPackets
    /\ futures' = NotifyWaiters(pkt, dispatched + 1)
    /\ last_packet' = pkt
    /\ dispatched' = dispatched + 1
    /\ reader' = "handler"
    /\ UNCHANGED <<sockVars, waiters, handled>>

\* A packet the server sends of its own accord.
DispatchPacket ==
    \E cmd \in Commands, tag \in Tags : Dispatch([cmd |-> cmd, tag |-> tag])

\* _dispatch_packet, step 2: the packet handler (EmpireClient._on_packet: the
\* state store update, then the subscribers) returns.
PacketHandler ==
    /\ read_task = "running" /\ reader = "handler" /\ closer = "idle"
    /\ handled' = dispatched
    /\ reader' = "loop"
    /\ UNCHANGED <<sockVars, futVars, last_packet, dispatched>>

\* A cancellation that fails the waiters of one bucket only.
CancelGamWaiters ==
    [i \in FutureIds |->
        IF (\E e \in Bucket(waiters, "gam") : e.fut = i) /\ ~Done(futures[i])
        THEN SetException(futures[i])
        ELSE futures[i]]

\* SFSConnection._cancel_all_waiters
CancelAllWaiters ==
    [i \in FutureIds |->
        IF (\E e \in Entries(waiters) : e.fut = i) /\ ~Done(futures[i])
        THEN SetException(futures[i])
        ELSE futures[i]]

\* SFSConnection.connect (the handshake takes at least one turn of the event
\* loop, so a spawned on_close task has run by the time it returns).
Connect ==
    /\ ~connected
    /\ closer = "idle" /\ read_task # "running" /\ ~disconnecting
    /\ ~on_close_task
    /\ ws' = "open" /\ session' = TRUE
    /\ read_task' = "running" /\ reader' = "loop"
    /\ UNCHANGED <<closer, on_close_task, disconnecting, futVars,
                   last_packet, dispatched, handled>>

(***************************************************************************)
(* Closing.  closer is the position of the code that releases the socket:  *)
(*   "idle"                       nothing is closing                       *)
(*   "loop_ws", "loop_session"    the finally of _read_loop, inside        *)
(*                                _close_resources, at `await ws.close()`  *)
(*                                or `await session.close()`               *)
(*   "disc_ws", "disc_session"    disconnect(), inside _close_resources    *)
(* disconnecting: a disconnect() call is waiting for the read task or is   *)
(* closing.                                                                *)
(***************************************************************************)
\* The read loop ends by itself: a transport error, or the peer closed.  Its
\* finally block starts _close_resources.
ReadLoopEnds ==
    /\ read_task = "running" /\ reader = "loop" /\ closer = "idle"
    /\ ~disconnecting
    /\ ws' = "closed"
    /\ closer' = "loop_ws"
    /\ UNCHANGED <<session, read_task, on_close_task, disconnecting, futVars,
                   pktVars>>

\* _close_resources: `await self._ws.close()` returns, `self._ws = None`.
WsClosed ==
    /\ closer \in {"loop_ws", "disc_ws"}
    /\ ws' = "none"
    /\ closer' = IF closer = "loop_ws" THEN "loop_session" ELSE "disc_session"
    /\ UNCHANGED <<session, read_task, on_close_task, disconnecting, futVars,
                   pktVars>>

\* The finally of _read_loop: `await self._session.close()` returns, then
\* _cancel_all_waiters(), then the on_close task is spawned; the task ends.
LoopSessionClosed ==
    /\ closer = "loop_session"
    /\ session' = FALSE
    /\ futures' = CancelAllWaiters
    /\ waiters' = <<>>
    /\ on_close_task' = TRUE
    /\ read_task' = "done"
    /\ closer' = "idle"
    /\ UNCHANGED <<ws, disconnecting, pktVars>>

\* The on_close task runs (EmpireClient._on_disconnect).
OnClose ==
    /\ on_close_task
    /\ on_close_task' = FALSE
    /\ UNCHANGED <<ws, session, read_task, closer, disconnecting, futVars,
                   pktVars>>

\* disconnect() is called: the read task, if any, is cancelled and awaited.
\* A running read loop takes the CancelledError at its await (in the loop or
\* inside the packet handler) and enters its finally block; a read task that is
\* already inside its finally block takes it there, which ends the block.
Disconnect ==
    /\ ~disconnecting
    /\ closer \notin {"disc_ws", "disc_session"}
    /\ disconnecting' = TRUE
    /\ IF read_task = "running" /\ closer = "idle"
       THEN /\ closer' = "loop_ws"
            /\ ws' = "closed"
            /\ reader' = "loop"
            /\ UNCHANGED read_task
       ELSE IF read_task = "running"
       THEN /\ closer' = "idle"
            /\ read_task' = "done"
            /\ UNCHANGED <<ws, reader>>
       ELSE UNCHANGED <<ws, closer, read_task, reader>>
    /\ UNCHANGED <<session, on_close_task, futVars, last_packet, dispatched,
                   handled>>

\* disconnect() resumes after the read task ended and calls _close_resources:
\* it suspends at `await self._ws.close()` if _ws is still set, else at
\* `await self._session.close()` if the session is, else it goes on to
\* _cancel_all_waiters() at once.
DisconnectResumes ==
    /\ disconnecting
    /\ read_task # "running" /\ closer = "idle"
    /\ IF ws # "none"
       THEN /\ closer' = "disc_ws"
            /\ ws' = "closed"
            /\ UNCHANGED <<futures, waiters, disconnecting>>
       ELSE IF session
       THEN /\ closer' = "disc_session"
            /\ UNCHANGED <<ws, futures, waiters, disconnecting>>
       ELSE /\ futures' = CancelAllWaiters
            /\ waiters' = <<>>
            /\ disconnecting' = FALSE
            /\ UNCHANGED <<ws, closer>>
    /\ UNCHANGED <<session, read_task, on_close_task, pktVars>>

\* disconnect(): `await self._session.close()` returns, then
\* _cancel_all_waiters().
DisconnectSessionClosed ==
    /\ closer = "disc_session"
    /\ session' = FALSE
    /\ futures' = CancelAllWaiters
    /\ waiters' = <<>>
    /\ closer' = "idle"
    /\ disconnecting' = FALSE
    /\ UNCHANGED <<ws, read_task, on_close_task, pktVars>>

(***************************************************************************)
(* The request API with a wait.  EmpireClient.send and get_movements        *)
(* (client/client.py) write the frame and then call wait_for;               *)
(* _send_command_action (client/actions.py) calls create_waiter, writes the *)
(* frame and then waits.  Both are modelled on the waiter table above.      *)
(* call.api is "none", "send" or "action"; written: the frame is on the     *)
(* socket; fut: the waiter of the call (0: not registered yet); answer:     *)
(* "no" until the server's response is dispatched, then "delivered" if the  *)
(* waiter of the call was registered at that time and "missed" if not.      *)
(***************************************************************************)
NoCall ==
    [api |-> "none", cmd |-> "none", written |-> FALSE, fut |-> 0,
     answer |-> "no"]

\* EmpireClient.send(request, wait=True) and get_movements(wait=True), first
\* step: self.connection.send(packet).
ClientSendWrites ==
    \E cmd \in Commands :
        /\ call = NoCall
        /\ connected /\ closer = "idle"
        /\ call' = [NoCall EXCEPT !.api = "send", !.cmd = cmd, !.written = TRUE]
        /\ UNCHANGED <<connVars, movVars, cliVars>>

\* EmpireClient.send and get_movements, second step:
\* self.connection.wait_for(command, timeout=timeout).
ClientSendWaits ==
    /\ call.api = "send" /\ call.fut = 0
    /\ Len(futures) < MaxFutures
    /\ futures' = Append(futures, NewFuture)
    /\ waiters' = AddWaiter(waiters, call.cmd,
                            [fut |-> Len(futures) + 1, pred |-> "any"])
    /\ call' = [call EXCEPT !.fut = Len(futures) + 1]
    /\ UNCHANGED <<sockVars, pktVars, movVars, cliVars>>

\* _send_command_action(wait_for_response=True), first step:
\* client.response_awaiter.create_waiter(command).
ActionRegisters ==
    \E cmd \in Commands :
        /\ call = NoCall
        /\ Len(futures) < MaxFutures
        /\ futures' = Append(futures, NewFuture)
        /\ waiters' = AddWaiter(waiters, cmd,
                                [fut |-> Len(futures) + 1, pred |-> "any"])
        /\ call' = [NoCall EXCEPT !.api = "action", !.cmd = cmd,
                                  !.fut = Len(futures) + 1]
        /\ UNCHANGED <<sockVars, pktVars, movVars, cliVars>>

\* _send_command_action, second step: await client.connection.send(packet)
ActionWrites ==
    /\ call.api = "action" /\ ~call.written
    /\ connected /\ closer = "idle"
    /\ call' = [call EXCEPT !.written = TRUE]
    /\ UNCHANGED <<connVars, movVars, cliVars>>

\* _send_command_action: send raises (not connected); the except clause calls
\* response_awaiter.cancel_command(command) and raises ActionError.
ActionSendFails ==
    /\ call.api = "action" /\ ~call.written
    /\ ~connected
    /\ futures' = [futures EXCEPT ![call.fut] =
                       IF Done(@) THEN @ ELSE Cancel(@)]
    /\ call' = NoCall
    /\ UNCHANGED <<sockVars, pktVars, waiters, movVars, cliVars>>

\* The server's response to the frame of the call reaches the read loop.
DispatchResponse ==
    /\ call.written /\ call.answer = "no"
    /\ \E tag \in Tags : Dispatch([cmd |-> call.cmd, tag |-> tag])
    /\ call' = [call EXCEPT !.answer =
                    IF call.fut = 0 THEN "missed" ELSE "delivered"]
    /\ UNCHANGED <<movVars, cliVars>>

\* The call returns once the awaiter of its future has resumed.
CallReturns ==
    /\ call.fut # 0
    /\ futures[call.fut].resumed
    /\ call' = NoCall
    /\ UNCHANGED <<connVars, movVars, cliVars>>

\* EmpireClient.__init__: no call in progress
ReqInit == call = NoCall

\* EmpireClient.send after wait_for: a packet is parsed and returned; the
\* TimeoutError of wait_for is caught by `except Exception` and None is
\* returned; the CancelledError("Connection closed") that
\* _cancel_all_waiters sets is a BaseException and passes the except clause.
ReturnValue(fut) ==
    CASE fut.status = "result" -> "response"
      [] fut.status = "cancelled" -> "None"
      [] OTHER -> "raised"

NoReturn == [answer |-> "no", status |-> "pending", value |-> "none"]

\* EmpireClient.send(request, wait=True) returns (or raises) once the awaiter
\* of its future has resumed.
ClientSendReturns ==
    /\ call.api = "send" /\ call.fut # 0
    /\ futures[call.fut].resumed
    /\ returned' = [answer |-> call.answer,
                    status |-> futures[call.fut].status,
                    value |-> ReturnValue(futures[call.fut])]
    /\ call' = NoCall
    /\ UNCHANGED <<connVars, exceptSendCall>>

RetInit == returned = NoReturn

(***************************************************************************)
(* EmpireClient.login (client/client.py).  login() is sequential: it sends *)
(* a frame, blocks in wait_for, and goes on or raises.  login_pc names the *)
(* response it is blocked on.                                              *)
(***************************************************************************)
\* ServerError.LOGIN_COOLDOWN, the error code of a login cooldown
LOGIN_COOLDOWN == 453

\* error_code of an lli response: success, the cooldown, two other failures
ErrorCodes == {0, LOGIN_COOLDOWN, 1, LOGIN_COOLDOWN + 1}

\* payload.get("CD") of an lli response: missing, an integer, or the decimal
\* text of one
CDValues ==
    {[kind |-> "missing", v |-> 0]}
        \cup [kind : {"int", "str"}, v : 0..MaxCD]

\* An lli response: its error code, whether its payload is a dict, and CD.
LliResponses == [error_code : ErrorCodes, dict : BOOLEAN, CD : CDValues]

NoResponse ==
    [error_code |-> 0, dict |-> FALSE, CD |-> [kind |-> "missing", v |-> 0]]

\* How a login() call ended: kind is "none" (running or never called), "ok"
\* (returned True) or the class of the exception raised; step is the wait
\* that timed out, code the seconds of a cooldown or the code of a failure.
Result(kind, step, code) == [kind |-> kind, step |-> step, code |-> code]

NoResult == Result("none", "none", 0)

\* The waits of login(), in order, and the frame sent before each.
FrameBefore(step) ==
    CASE step = "apiOK"  -> "verChk"
      [] step = "rlu"    -> "login"
      [] step = "joinOK" -> "autoJoin"
      [] step = "lli"    -> "lli"

\* A login() that sends the extension login before the auto-join.
StepAfterJoinLast(step) ==
    CASE step = "apiOK"  -> "rlu"
      [] step = "rlu"    -> "lli"
      [] step = "lli"    -> "joinOK"
      [] step = "joinOK" -> "done"

\* The wait that follows a wait ("done": none)
StepAfter(step) ==
    CASE step = "apiOK"  -> "rlu"
      [] step = "rlu"    -> "joinOK"
      [] step = "joinOK" -> "lli"
      [] step = "lli"    -> "done"

\* A login() for which no timeout is fatal but that of lli.
FatalOnlyLli(step) == step = "lli"

\* A login() for which every timeout is fatal.
FatalAlways(step) == TRUE

\* The except clause of the wait re-raises TimeoutError (for joinOK it passes)
Fatal(step) == step \in {"apiOK", "rlu", "lli"}

\* int(lli_response.payload.get("CD", 0)) under the isinstance check
Cooldown(resp) ==
    IF resp.dict /\ resp.CD.kind # "missing" THEN resp.CD.v ELSE 0

\* A login() that never reads CD.
LliOutcomeWithoutCD(resp) ==
    IF resp.error_code = 0 THEN Result("ok", "none", 0)
    ELSE IF resp.error_code = LOGIN_COOLDOWN
    THEN Result("LoginCooldownError", "none", 0)
    ELSE Result("LoginError", "none", resp.error_code)

\* A login() that treats every failure as a cooldown.
LliOutcomeAllCooldown(resp) ==
    IF resp.error_code = 0 THEN Result("ok", "none", 0)
    ELSE Result("LoginCooldownError", "none", Cooldown(resp))

\* The end of login() on an lli response
LliOutcome(resp) ==
    IF resp.error_code = 0 THEN Result("ok", "none", 0)
    ELSE IF resp.error_code = LOGIN_COOLDOWN
    THEN Result("LoginCooldownError", "none", Cooldown(resp))
    ELSE Result("LoginError", "none", resp.error_code)

\* login() without a username or a password: ValueError, nothing is sent.
LoginWithoutCredentials ==
    /\ login_pc = "idle" /\ logins < MaxLogins
    /\ logins' = logins + 1
    /\ frames' = <<>> /\ obtained' = <<>>
    /\ login_result' = Result("ValueError", "none", 0)
    /\ UNCHANGED <<login_pc, lli_response, is_logged_in>>

\* login(): connect if needed, send verChk, wait for apiOK.
LoginStart ==
    /\ login_pc = "idle" /\ logins < MaxLogins
    /\ logins' = logins + 1
    /\ frames' = <<FrameBefore("apiOK")>> /\ obtained' = <<>>
    /\ login_pc' = "apiOK"
    /\ login_result' = NoResult
    /\ UNCHANGED <<lli_response, is_logged_in>>

\* wait_for returns the response of a step before lli: the next frame is sent.
LoginResponse ==
    /\ login_pc \in {"apiOK", "rlu", "joinOK"}
    /\ obtained' = Append(obtained, login_pc)
    /\ frames' = Append(frames, FrameBefore(StepAfter(login_pc)))
    /\ login_pc' = StepAfter(login_pc)
    /\ UNCHANGED <<lli_response, login_result, is_logged_in, logins>>

\* wait_for raises TimeoutError.
LoginTimeout ==
    /\ login_pc # "idle"
    /\ obtained' = Append(obtained, "timeout")
    /\ IF Fatal(login_pc)
       THEN /\ login_result' = Result("TimeoutError", login_pc, 0)
            /\ login_pc' = "idle"
            /\ UNCHANGED frames
       ELSE /\ frames' = Append(frames, FrameBefore(StepAfter(login_pc)))
            /\ login_pc' = StepAfter(login_pc)
            /\ UNCHANGED login_result
    /\ UNCHANGED <<lli_response, is_logged_in, logins>>

\* wait_for("lli") returns the lli response.
LoginLli ==
    \E resp \in LliResponses :
        /\ login_pc = "lli"
        /\ obtained' = Append(obtained, "lli")
        /\ lli_response' = resp
        /\ login_result' = LliOutcome(resp)
        /\ is_logged_in' = (is_logged_in \/ LliOutcome(resp).kind = "ok")
        /\ login_pc' = "idle"
        /\ UNCHANGED <<frames, logins>>

\* EmpireClient._on_disconnect and close()
ClientDisconnected ==
    /\ is_logged_in
    /\ is_logged_in' = FALSE
    /\ UNCHANGED <<login_pc, frames, obtained, lli_response, login_result,
                   logins>>

\* EmpireClient.__init__
LoginInit ==
    /\ login_pc = "idle"
    /\ frames = <<>> /\ obtained = <<>>
    /\ lli_response = NoResponse
    /\ login_result = NoResult
    /\ is_logged_in = FALSE
    /\ logins = 0

(***************************************************************************)
(* login() against a server that answers verChk with apiOK, login with     *)
(* rlu, autoJoin with joinOK and lli with error_code 0, each once and      *)
(* before the timeout of the wait.  login() writes a frame and then calls  *)
(* wait_for, which registers the waiter (create_waiter) when it is called; *)
(* the reader dispatches the reply to the waiters registered at that       *)
(* moment (_dispatch_packet).                                              *)
(***************************************************************************)
\* login() is called and writes the verChk frame.
HsStart ==
    /\ LoginStart
    /\ registered' = FALSE
    /\ reply' = "no"

\* wait_for: create_waiter registers the waiter of the current wait.
HsRegister ==
    /\ login_pc # "idle"
    /\ ~registered
    /\ registered' = TRUE
    /\ UNCHANGED <<loginVars, reply>>

\* The reader dispatches the server's reply to the last frame: a registered
\* waiter gets it, otherwise no one does.
HsReply ==
    /\ login_pc # "idle"
    /\ reply = "no"
    /\ reply' = IF registered THEN "delivered" ELSE "missed"
    /\ UNCHANGED <<loginVars, registered>>

\* wait_for returns the reply of a step before lli; the next frame is
\* written.
HsResponse ==
    /\ registered /\ reply = "delivered"
    /\ LoginResponse
    /\ registered' = FALSE
    /\ reply' = "no"

\* The reply was dispatched before the waiter was registered: wait_for runs
\* into its timeout.
HsTimeout ==
    /\ registered /\ reply = "missed"
    /\ LoginTimeout
    /\ registered' = FALSE
    /\ reply' = "no"

\* wait_for("lli") returns the server's lli response, error_code 0.
HsLli ==
    /\ registered /\ reply = "delivered"
    /\ LoginLli
    /\ lli_response'.error_code = 0
    /\ registered' = FALSE
    /\ reply' = "no"

HsInit == registered = FALSE /\ reply = "no"

\* The steps of login() and of the reader during a handshake.
HsStep ==
    \/ HsRegister
    \/ HsReply
    \/ HsResponse
    \/ HsTimeout
    \/ HsLli

HsNext ==
    \/ HsStart /\ UNCHANGED exceptHandshake
    \/ HsRegister /\ UNCHANGED exceptHandshake
    \/ HsReply /\ UNCHANGED exceptHandshake
    \/ HsResponse /\ UNCHANGED exceptHandshake
    \/ HsTimeout /\ UNCHANGED exceptHandshake
    \/ HsLli /\ UNCHANGED exceptHandshake

(***************************************************************************)
(* The session: is_logged_in of the client over the closing of its         *)
(* connection.  login() connects if needed and sets is_logged_in when the  *)
(* lli response has error code 0; _on_disconnect, the hook of the          *)
(* connection, and close() clear it.  A response reaches login() only over *)
(* an open connection; on a closed one its wait or its next send raises.   *)
(***************************************************************************)
\* login(): `if not self.connection.connected: self.connection.connect()`
SessConnect ==
    /\ Connect
    /\ hook_ran' = FALSE
    /\ UNCHANGED loginVars

\* login() sends verChk over the open connection.
SessLoginStart ==
    /\ connected /\ closer = "idle"
    /\ LoginStart
    /\ UNCHANGED <<connVars, sessVars>>

\* The reader dispatches a response of the handshake to login().
SessLoginResponse ==
    /\ connected /\ read_task = "running" /\ closer = "idle"
    /\ LoginResponse
    /\ UNCHANGED <<connVars, sessVars>>

\* A wait of login() times out on the open connection.
SessLoginTimeout ==
    /\ connected
    /\ LoginTimeout
    /\ UNCHANGED <<connVars, sessVars>>

\* The reader dispatches the lli response to login().
SessLoginLli ==
    /\ connected /\ read_task = "running" /\ closer = "idle"
    /\ LoginLli
    /\ UNCHANGED <<connVars, sessVars>>

\* The connection closes under login(): its waiter is cancelled, or its wait
\* times out, or its next send raises "Not connected"; login() raises.
SessLoginAborted ==
    /\ login_pc # "idle" /\ ~connected
    /\ login_result' = Result("raised", login_pc, 0)
    /\ login_pc' = "idle"
    /\ UNCHANGED <<frames, obtained, lli_response, is_logged_in, logins,
                   connVars, sessVars>>

\* The connection is lost: the read loop ends and closes the resources.
SessConnectionLost ==
    /\ ReadLoopEnds
    /\ UNCHANGED <<loginVars, sessVars>>

SessWsClosed ==
    /\ WsClosed
    /\ UNCHANGED <<loginVars, sessVars>>

SessLoopSessionClosed ==
    /\ LoopSessionClosed
    /\ UNCHANGED <<loginVars, sessVars>>

\* EmpireClient._on_disconnect, run by the task the read loop spawned.
OnDisconnect ==
    /\ OnClose
    /\ is_logged_in' = FALSE
    /\ hook_ran' = TRUE
    /\ UNCHANGED <<login_pc, frames, obtained, lli_response, login_result,
                   logins>>

\* EmpireClient.close(): is_logged_in = False, then connection.disconnect().
ClientClose ==
    /\ Disconnect
    /\ is_logged_in' = FALSE
    /\ UNCHANGED <<login_pc, frames, obtained, lli_response, login_result,
                   logins, sessVars>>

\* SFSConnection.send: the write raises and send() calls disconnect().
SessSendFails ==
    /\ ws # "none"
    /\ Disconnect
    /\ UNCHANGED <<loginVars, sessVars>>

SessDisconnectResumes ==
    /\ DisconnectResumes
    /\ UNCHANGED <<loginVars, sessVars>>

SessDisconnectSessionClosed ==
    /\ DisconnectSessionClosed
    /\ UNCHANGED <<loginVars, sessVars>>

\* no connection yet
SessInit == hook_ran = FALSE

\* The steps the event loop takes by itself once a closing has begun.
SessStep ==
    \/ SessWsClosed
    \/ SessLoopSessionClosed
    \/ OnDisconnect
    \/ SessDisconnectResumes
    \/ SessDisconnectSessionClosed

SessNext ==
    \/ SessConnect /\ UNCHANGED exceptSession
    \/ SessLoginStart /\ UNCHANGED exceptSession
    \/ SessLoginResponse /\ UNCHANGED exceptSession
    \/ SessLoginTimeout /\ UNCHANGED exceptSession
    \/ SessLoginLli /\ UNCHANGED exceptSession
    \/ SessLoginAborted /\ UNCHANGED exceptSession
    \/ SessConnectionLost /\ UNCHANGED exceptSession
    \/ ClientClose /\ UNCHANGED exceptSession
    \/ SessSendFails /\ UNCHANGED exceptSession
    \/ SessStep /\ UNCHANGED exceptSession

LoginNext ==
    \/ LoginWithoutCredentials /\ UNCHANGED exceptLogin
    \/ LoginStart /\ UNCHANGED exceptLogin
    \/ LoginResponse /\ UNCHANGED exceptLogin
    \/ LoginTimeout /\ UNCHANGED exceptLogin
    \/ LoginLli /\ UNCHANGED exceptLogin
    \/ ClientDisconnected /\ UNCHANGED exceptLogin

(***************************************************************************)
(* Subscribers (client/client.py): _register_handler appends a handler to  *)
(* the list of its command; _on_packet updates the store and then calls    *)
(* the handlers of the packet's command.  _on_packet is synchronous: one   *)
(* call is one step.                                                       *)
(***************************************************************************)
\* The commands handlers are registered for.
SubCommands == {"acm", "gaa"}

HandlerIds == 1..MaxHandlers

\* The handlers registered so far.
Registered == UNION {{handlers[c][k] : k \in 1..Len(handlers[c])} : c \in SubCommands}

\* EmpireClient._register_handler
RegisterHandler ==
    \E cmd \in SubCommands :
        /\ Cardinality(Registered) < MaxHandlers
        /\ handlers' = [handlers EXCEPT
                           ![cmd] = Append(@, Cardinality(Registered) + 1)]
        /\ UNCHANGED <<calls, on_packet, sub_dispatched>>

\* A handler loop that ends at the first handler that raises.
CalledUntilRaise(hs, raising) ==
    SubSeq(hs, 1, IF \E k \in 1..Len(hs) : hs[k] \in raising
                  THEN CHOOSE k \in 1..Len(hs) :
                           /\ hs[k] \in raising
                           /\ \A j \in 1..(k - 1) : hs[j] \notin raising
                  ELSE Len(hs))

\* `for handler in list(handlers): try: handler(response) except Exception:
\* pass`: the handlers called, given those that raise
Called(hs, raising) == hs

\* The handler calls of one _on_packet call, as entries of the log.
CallsOf(pkt, hs, raising) ==
    [k \in 1..Len(Called(hs, raising)) |->
        [pkt |-> pkt, handler |-> Called(hs, raising)[k],
         raised |-> Called(hs, raising)[k] \in raising]]

\* How an _on_packet call ends: "skipped" (no command or a payload that is
\* not a dict), "raised" (the store update or parse_response raised: the
\* exception leaves _on_packet), "unparsed" (parse_response gave nothing),
\* "dispatched" (the handler loop ran).
OnPacketEnd(p) ==
    IF ~p.dict THEN "skipped"
    ELSE IF p.update_raises THEN "raised"
    ELSE IF ~p.parsed THEN "unparsed"
    ELSE "dispatched"

\* A packet as _on_packet sees it: its command, whether its payload is a
\* dict, whether update_from_packet raises on it, whether parse_response
\* gives a response for it.
SubPackets ==
    [cmd : SubCommands, dict : BOOLEAN, update_raises : BOOLEAN,
     parsed : BOOLEAN]

\* EmpireClient._on_packet
OnPacket ==
    \E p \in SubPackets, raising \in SUBSET HandlerIds :
        /\ sub_dispatched < MaxSubPackets
        /\ raising \subseteq Registered
        /\ sub_dispatched' = sub_dispatched + 1
        /\ on_packet' = [cmd |-> p.cmd, end |-> OnPacketEnd(p)]
        /\ calls' = IF OnPacketEnd(p) = "dispatched"
                    THEN calls \o CallsOf(sub_dispatched + 1, handlers[p.cmd],
                                          raising)
                    ELSE calls
        /\ UNCHANGED handlers

\* EmpireClient.__init__: self._handlers = {}
SubInit ==
    /\ handlers = [c \in SubCommands |-> <<>>]
    /\ calls = <<>>
    /\ on_packet = [cmd |-> "none", end |-> "none"]
    /\ sub_dispatched = 0

SubNext ==
    \/ RegisterHandler /\ UNCHANGED exceptSub
    \/ OnPacket /\ UNCHANGED exceptSub

(***************************************************************************)
(* A castle under _handle_dcl (state/manager.py), step by step, and a      *)
(* thread that reads GameState while the receive thread applies packets    *)
(* (client/client.py: "blocking I/O with a background receive thread").    *)
(* GameState has no lock and hands out its own objects.                    *)
(***************************************************************************)
BuildingIds == {1, 2}
UnitIds == {1, 2}
Woods == {0, 1}

\* castle_data of a dcl for the castle: W, AC (buildings, level left out)
\* and UN (unit id -> count, count left out).
DclData ==
    [W : Woods,
     AC : UNION {[1..n -> BuildingIds] : n \in 0..MaxBuildings},
     UN : SUBSET UnitIds]

\* The castle and army a reader can get hold of.
Store == [castle |-> castle, army |-> army]

\* The castle and army after the whole of _handle_dcl, from those before it.
DclApplied(before, data) ==
    [castle |-> [wood |-> data.W, buildings |-> data.AC, units |-> data.UN],
     army |-> data.UN]

\* A dcl whose amount is added to the balance instead of replacing it.
DclBeginAdds ==
    \E data \in DclData :
        /\ dcl_pc = "idle"
        /\ dcl_count < MaxDcl
        /\ dcl_count' = dcl_count + 1
        /\ dcl_data' = data
        /\ boundary' = Store
        /\ castle' = [castle EXCEPT !.wood = (@ + data.W) % 2]
        /\ dcl_pc' = "clear"
        /\ UNCHANGED <<army, dcl_k, dcl_todo, observed>>

\* _handle_dcl up to the building list: res.wood = int(castle_data.get("W"))
DclBegin ==
    \E data \in DclData :
        /\ dcl_pc = "idle"
        /\ dcl_count < MaxDcl
        /\ dcl_count' = dcl_count + 1
        /\ dcl_data' = data
        /\ boundary' = Store
        /\ castle' = [castle EXCEPT !.wood = data.W]
        /\ dcl_pc' = "clear"
        /\ UNCHANGED <<army, dcl_k, dcl_todo, observed>>

\* castle.buildings.clear()
DclClearBuildings ==
    /\ dcl_pc = "clear"
    /\ castle' = [castle EXCEPT !.buildings = <<>>]
    /\ dcl_k' = 1
    /\ dcl_pc' = "append"
    /\ UNCHANGED <<army, dcl_data, dcl_todo, boundary, observed, dcl_count>>

\* castle.buildings.append(Building(...)), one entry of AC
DclAppendBuilding ==
    /\ dcl_pc = "append"
    /\ dcl_k <= Len(dcl_data.AC)
    /\ castle' = [castle EXCEPT
                     !.buildings = Append(@, dcl_data.AC[dcl_k])]
    /\ dcl_k' = dcl_k + 1
    /\ UNCHANGED <<army, dcl_pc, dcl_data, dcl_todo, boundary, observed,
                   dcl_count>>

\* castle.units.clear()
DclClearUnits ==
    /\ dcl_pc = "append"
    /\ dcl_k > Len(dcl_data.AC)
    /\ castle' = [castle EXCEPT !.units = {}]
    /\ dcl_todo' = dcl_data.UN
    /\ dcl_pc' = "units"
    /\ UNCHANGED <<army, dcl_data, dcl_k, boundary, observed, dcl_count>>

\* castle.units[uid] = int(count), one item of UN, in the dict's order
DclPutUnit ==
    /\ dcl_pc = "units"
    /\ dcl_todo # {}
    /\ LET uid == CHOOSE u \in dcl_todo : \A v \in dcl_todo : u <= v
       IN  /\ castle' = [castle EXCEPT !.units = @ \cup {uid}]
           /\ dcl_todo' = dcl_todo \ {uid}
    /\ UNCHANGED <<army, dcl_pc, dcl_data, dcl_k, boundary, observed,
                   dcl_count>>

\* self.armies[aid] = Army(units=castle.units.copy()), the end of the castle
DclArmy ==
    /\ dcl_pc = "units"
    /\ dcl_todo = {}
    /\ army' = castle.units
    /\ dcl_pc' = "idle"
    /\ UNCHANGED <<castle, dcl_data, dcl_k, dcl_todo, boundary, observed,
                   dcl_count>>

\* Another thread reads the castle and the army (client.state.castles[aid],
\* client.state.armies[aid]).
ReadCastle ==
    /\ observed' = Store
    /\ UNCHANGED <<castle, army, dcl_pc, dcl_data, dcl_k, dcl_todo, boundary,
                   dcl_count>>

\* GameState.__init__ and a castle admitted by an earlier gbd.
DclInit ==
    /\ castle = [wood |-> 0, buildings |-> <<1>>, units |-> {1}]
    /\ army = {1}
    /\ dcl_pc = "idle"
    /\ dcl_data = [W |-> 0, AC |-> <<1>>, UN |-> {1}]
    /\ dcl_k = 1
    /\ dcl_todo = {}
    /\ boundary = [castle |-> [wood |-> 0, buildings |-> <<1>>, units |-> {1}],
                   army |-> {1}]
    /\ observed = [castle |-> [wood |-> 0, buildings |-> <<1>>, units |-> {1}],
                   army |-> {1}]
    /\ dcl_count = 0

DclNext ==
    \/ DclBegin /\ UNCHANGED exceptDcl
    \/ DclClearBuildings /\ UNCHANGED exceptDcl
    \/ DclAppendBuilding /\ UNCHANGED exceptDcl
    \/ DclClearUnits /\ UNCHANGED exceptDcl
    \/ DclPutUnit /\ UNCHANGED exceptDcl
    \/ DclArmy /\ UNCHANGED exceptDcl
    \/ ReadCastle /\ UNCHANGED exceptDcl

(***************************************************************************)
(* SFSConnection.send (network/connection.py), called by several tasks of  *)
(* the event loop.  sender[t] is "idle" before the call, "writing" while   *)
(* the task is suspended inside `await self._ws.send_str(data)`,           *)
(* "closing" while it is inside the `await self.disconnect()` of the       *)
(* except clause, and "sent", "not_connected" or "raised" when the call    *)
(* has ended.                                                              *)
(***************************************************************************)
Senders == 1..MaxSenders

\* The tasks inside ws.send_str.
Writing == {t \in Senders : sender[t] = "writing"}

\* send() is called: RuntimeError("Not connected") unless connected, else
\* the task enters ws.send_str; no lock is taken on the way.
SendCall(t) ==
    /\ sender[t] = "idle"
    /\ sender' = [sender EXCEPT
                     ![t] = IF connected THEN "writing" ELSE "not_connected"]
    /\ UNCHANGED connVars

\* ws.send_str returns: the frame is written.
SendReturns(t) ==
    /\ sender[t] = "writing"
    /\ sender' = [sender EXCEPT ![t] = "sent"]
    /\ UNCHANGED connVars

\* ws.send_str raises: the except clause calls disconnect().
SendFails(t) ==
    /\ sender[t] = "writing"
    /\ sender' = [sender EXCEPT ![t] = "closing"]
    /\ Disconnect

\* disconnect() has returned: `raise e`.
SendRaises(t) ==
    /\ sender[t] = "closing"
    /\ ~disconnecting
    /\ sender' = [sender EXCEPT ![t] = "raised"]
    /\ UNCHANGED connVars

SendInit == sender = [t \in Senders |-> "idle"]

SendNext ==
    \/ \E t \in Senders : SendCall(t) /\ UNCHANGED exceptSend
    \/ \E t \in Senders : SendReturns(t) /\ UNCHANGED exceptSend
    \/ \E t \in Senders : SendFails(t) /\ UNCHANGED exceptSend
    \/ \E t \in Senders : SendRaises(t) /\ UNCHANGED exceptSend
    \/ Connect /\ UNCHANGED <<movVars, reqVars, cliVars>>
    \/ ReadLoopEnds /\ UNCHANGED <<movVars, reqVars, cliVars>>
    \/ WsClosed /\ UNCHANGED <<movVars, reqVars, cliVars>>
    \/ LoopSessionClosed /\ UNCHANGED <<movVars, reqVars, cliVars>>
    \/ OnClose /\ UNCHANGED <<movVars, reqVars, cliVars>>
    \/ Disconnect /\ UNCHANGED <<movVars, reqVars, cliVars>>
    \/ DisconnectResumes /\ UNCHANGED <<movVars, reqVars, cliVars>>
    \/ DisconnectSessionClosed /\ UNCHANGED <<movVars, reqVars, cliVars>>

(***************************************************************************)
(* The connection with the history of create_waiter: the same steps as     *)
(* ConnNext, and each wait_for records whether the connection was closed   *)
(* when its waiter was created.                                            *)
(***************************************************************************)
\* SFSConnection.wait_for, with `if not self.connected: pass` recorded.
WaitForRecorded ==
    /\ WaitFor
    /\ made_closed' = IF connected THEN made_closed
                      ELSE made_closed \cup {Len(futures) + 1}

HistInit == made_closed = {}

(***************************************************************************)
(* AccountPool (automation/multi_account.py).  The accounts are usernames  *)
(* 1..MaxAccounts in the order of self.accounts; the callers are asyncio   *)
(* tasks, which interleave at the awaits of lease_account and              *)
(* release_account.  lease[l].pc: "idle", "login" (at `await               *)
(* client.login()`), "closing" (at `await client.close()` in an except     *)
(* clause), "leased" (returned the client), "releasing" (release_account   *)
(* at `await client.close()`), "none" (returned None) or "raised";         *)
(* rest: the candidates not tried yet, the first being the one in hand.    *)
(***************************************************************************)
Accounts == 1..MaxAccounts
Leasers == 1..MaxLeasers

NoLease == [pc |-> "idle", rest |-> <<>>]

\* The members of a set of accounts, in the order of self.accounts.
InOrder(S) ==
    LET pick[n \in 0..MaxAccounts] ==
            IF n = 0 THEN <<>>
            ELSE IF n \in S THEN Append(pick[n - 1], n) ELSE pick[n - 1]
    IN  pick[MaxAccounts]

\* candidates: the named account if it is idle, or get_available_accounts()
Candidates(username) ==
    InOrder({a \in Accounts :
                /\ a \notin busy_accounts
                /\ username = 0 \/ a = username})

\* The account a caller has in hand.
Target(l) == Head(lease[l].rest)

\* lease_account up to its first await: the candidates are listed and the
\* first is marked busy ("Mark as busy immediately"); without candidates it
\* returns None.
LeaseBegin(l) ==
    \E username \in Accounts \cup {0} :
        /\ lease[l].pc = "idle"
        /\ IF Candidates(username) = <<>>
           THEN /\ lease' = [lease EXCEPT ![l].pc = "none"]
                /\ UNCHANGED busy_accounts
           ELSE /\ lease' = [lease EXCEPT ![l] =
                                 [pc |-> "login", rest |-> Candidates(username)]]
                /\ busy_accounts' =
                       busy_accounts \cup {Head(Candidates(username))}
        /\ UNCHANGED clients

\* `await client.login()` returns: the client is cached and returned.
LeaseLoginOk(l) ==
    /\ lease[l].pc = "login"
    /\ clients' = [a \in DOMAIN clients \cup {Target(l)} |->
                       IF a = Target(l) THEN l ELSE clients[a]]
    /\ lease' = [lease EXCEPT ![l].pc = "leased"]
    /\ UNCHANGED busy_accounts

\* `await client.login()` raises (cooldown or any other error): the except
\* clause removes the username from _busy_accounts (a KeyError if it is not
\* there) and awaits client.close().
LeaseLoginFails(l) ==
    /\ lease[l].pc = "login"
    /\ IF Target(l) \in busy_accounts
       THEN /\ busy_accounts' = busy_accounts \ {Target(l)}
            /\ lease' = [lease EXCEPT ![l].pc = "closing"]
       ELSE /\ lease' = [lease EXCEPT ![l].pc = "raised"]
            /\ UNCHANGED busy_accounts
    /\ UNCHANGED clients

\* `await client.close()` returns and the loop continues with the next
\* candidate of the list made at the start, marking it busy; after the last
\* one lease_account returns None.
LeaseNext(l) ==
    /\ lease[l].pc = "closing"
    /\ IF Tail(lease[l].rest) = <<>>
       THEN /\ lease' = [lease EXCEPT ![l] = [pc |-> "none", rest |-> <<>>]]
            /\ UNCHANGED busy_accounts
       ELSE /\ lease' = [lease EXCEPT ![l] =
                             [pc |-> "login", rest |-> Tail(lease[l].rest)]]
            /\ busy_accounts' =
                   busy_accounts \cup {Head(Tail(lease[l].rest))}
    /\ UNCHANGED clients

\* release_account(client) of a leased client, up to `await client.close()`
ReleaseBegin(l) ==
    /\ lease[l].pc = "leased"
    /\ lease' = [lease EXCEPT ![l].pc = "releasing"]
    /\ UNCHANGED <<busy_accounts, clients>>

\* release_account, the finally clause: the username leaves _clients and
\* _busy_accounts.
ReleaseEnd(l) ==
    /\ lease[l].pc = "releasing"
    /\ clients' = [a \in DOMAIN clients \ {Target(l)} |-> clients[a]]
    /\ busy_accounts' = busy_accounts \ {Target(l)}
    /\ lease' = [lease EXCEPT ![l] = [pc |-> "none", rest |-> <<>>]]

\* AccountPool.__init__, and no call in progress
PoolInit ==
    /\ busy_accounts = {}
    /\ clients = <<>>
    /\ lease = [l \in Leasers |-> NoLease]

PoolNext ==
    \/ \E l \in Leasers : LeaseBegin(l) /\ UNCHANGED exceptPool
    \/ \E l \in Leasers : LeaseLoginOk(l) /\ UNCHANGED exceptPool
    \/ \E l \in Leasers : LeaseLoginFails(l) /\ UNCHANGED exceptPool
    \/ \E l \in Leasers : LeaseNext(l) /\ UNCHANGED exceptPool
    \/ \E l \in Leasers : ReleaseBegin(l) /\ UNCHANGED exceptPool
    \/ \E l \in Leasers : ReleaseEnd(l) /\ UNCHANGED exceptPool

(***************************************************************************)
(* Frames that do not decode.  _process_message is wrapped in              *)
(* handle_errors(log_msg="Failed to parse packet", re_raise=False); the    *)
(* decorator (utils/decorators.py) and Packet.from_bytes                   *)
(* (protocol/packet.py) are not in the sources, so a malformed frame is    *)
(* taken to raise in from_bytes and the decorator to do what its           *)
(* parameter says.                                                         *)
(***************************************************************************)
\* A handle_errors that lets the exception through whatever re_raise says.
HandleErrorsReraises(re_raise) == "raised"

\* handle_errors(re_raise=...): the exception of the wrapped coroutine is
\* logged, and raised again only if re_raise is set.
HandleErrors(re_raise) == IF re_raise THEN "raised" ELSE "absorbed"

\* The read loop receives a frame that Packet.from_bytes rejects:
\* _process_message ends before _dispatch_packet.  An exception that got
\* out of it would end the loop through its `except Exception` and finally.
MalformedFrame ==
    /\ read_task = "running" /\ reader = "loop" /\ closer = "idle"
    /\ connected /\ ~disconnecting
    /\ malformed < MaxMalformed
    /\ malformed' = malformed + 1
    /\ dropped_at' = dispatched
    /\ IF HandleErrors(FALSE) = "absorbed"
       THEN UNCHANGED connVars
       ELSE ReadLoopEnds

FrameInit == malformed = 0 /\ dropped_at = 0

FrameNext ==
    \/ MalformedFrame /\ UNCHANGED exceptFrame
    \/ Connect /\ UNCHANGED <<movVars, reqVars, cliVars>>
    \/ WaitFor /\ UNCHANGED <<movVars, reqVars, cliVars>>
    \/ \E i \in 1..MaxFutures : Timeout(i) /\ UNCHANGED <<movVars, reqVars, cliVars>>
    \/ \E i \in 1..MaxFutures : Cleanup(i) /\ UNCHANGED <<movVars, reqVars, cliVars>>
    \/ \E i \in 1..MaxFutures : Resume(i) /\ UNCHANGED <<movVars, reqVars, cliVars>>
    \/ DispatchPacket /\ UNCHANGED <<movVars, reqVars, cliVars>>
    \/ PacketHandler /\ UNCHANGED <<movVars, reqVars, cliVars>>
    \/ ReadLoopEnds /\ UNCHANGED <<movVars, reqVars, cliVars>>
    \/ WsClosed /\ UNCHANGED <<movVars, reqVars, cliVars>>
    \/ LoopSessionClosed /\ UNCHANGED <<movVars, reqVars, cliVars>>

HistNext ==
    \/ WaitForRecorded /\ UNCHANGED exceptHist
    \/ Connect /\ UNCHANGED <<movVars, reqVars, cliVars>>
    \/ \E i \in 1..MaxFutures : Timeout(i) /\ UNCHANGED <<movVars, reqVars, cliVars>>
    \/ \E i \in 1..MaxFutures : Cleanup(i) /\ UNCHANGED <<movVars, reqVars, cliVars>>
    \/ \E i \in 1..MaxFutures : Resume(i) /\ UNCHANGED <<movVars, reqVars, cliVars>>
    \/ DispatchPacket /\ UNCHANGED <<movVars, reqVars, cliVars>>
    \/ PacketHandler /\ UNCHANGED <<movVars, reqVars, cliVars>>
    \/ ReadLoopEnds /\ UNCHANGED <<movVars, reqVars, cliVars>>
    \/ WsClosed /\ UNCHANGED <<movVars, reqVars, cliVars>>
    \/ LoopSessionClosed /\ UNCHANGED <<movVars, reqVars, cliVars>>
    \/ OnClose /\ UNCHANGED <<movVars, reqVars, cliVars>>
    \/ Disconnect /\ UNCHANGED <<movVars, reqVars, cliVars>>
    \/ DisconnectResumes /\ UNCHANGED <<movVars, reqVars, cliVars>>
    \/ DisconnectSessionClosed /\ UNCHANGED <<movVars, reqVars, cliVars>>

(***************************************************************************)
(* Movement.created_at (state/manager.py).  The handlers are those of the  *)
(* movement store above, taken with what they do to created_at; every      *)
(* packet arrives at a later tick than the one before.  Movement itself     *)
(* (world_models.py) declares no created_at: the value of a Movement that   *)
(* was just constructed is either a constant default or the time of         *)
(* construction.                                                            *)
(***************************************************************************)
\* created_at of a Movement whose field was never assigned: the default
NoStamp == 0

\* created_at of a Movement that was just constructed
FreshStamps == {NoStamp, now}

\* _handle_gam: self.movements[mid] = Movement(...), a new object
CreatedAfterGam(valid, fresh) ==
    [k \in DOMAIN movements \cup valid |->
        IF k \in valid THEN fresh ELSE created_at[k]]

\* _process_single_movement_update: "Preserve created_at from existing",
\* else time.time()
CreatedAfterMov(valid) ==
    [k \in DOMAIN movements \cup valid |->
        IF k \in DOMAIN movements THEN created_at[k] ELSE now]

\* _handle_gam_with_events: time.time() when the id is new, the existing
\* value when the id is known and tracked, nothing assigned otherwise
CreatedAfterGamWithEvents(valid, fresh) ==
    [k \in DOMAIN movements' |->
        IF k \notin valid THEN created_at[k]
        ELSE IF k \notin previous_movement_ids THEN now
        ELSE IF k \in DOMAIN movements THEN created_at[k]
        ELSE fresh]

\* self.movements.pop(mid, None)
CreatedAfterRemoval == [k \in DOMAIN movements' |-> created_at[k]]

\* The clock of the next packet.
Tick == now < MaxClock /\ now' = now + 1

GamStamped ==
    /\ UpdateFromPacketGam
    /\ \E fresh \in FreshStamps :
         created_at' = CreatedAfterGam(packet'.valid, fresh)
    /\ Tick

MovStamped ==
    /\ UpdateFromPacketMov
    /\ created_at' = CreatedAfterMov(packet'.valid)
    /\ Tick

GamWithEventsStamped ==
    /\ GamWithEvents
    /\ \E fresh \in FreshStamps :
         created_at' = CreatedAfterGamWithEvents(packet'.valid, fresh)
    /\ Tick

AtvStamped == UpdateFromPacketAtv /\ created_at' = CreatedAfterRemoval /\ Tick

AtaStamped == UpdateFromPacketAta /\ created_at' = CreatedAfterRemoval /\ Tick

CamStamped == UpdateFromPacketCam /\ created_at' = CreatedAfterRemoval /\ Tick

StampInit == created_at = <<>> /\ now = 1

StampNext ==
    \/ GamStamped /\ UNCHANGED exceptStamp
    \/ MovStamped /\ UNCHANGED exceptStamp
    \/ GamWithEventsStamped /\ UNCHANGED exceptStamp
    \/ AtvStamped /\ UNCHANGED exceptStamp
    \/ AtaStamped /\ UNCHANGED exceptStamp
    \/ CamStamped /\ UNCHANGED exceptStamp

(***************************************************************************)
(* Movement.PT and Movement.TT: the Movement constructor stores the integers of  *)
(* the payload as they are (world_models.py declares both as int with      *)
(* default 0 and no validator).                                            *)
(***************************************************************************)
\* PT and TT of the m_data of one movement
Progress == [PT : 0..(MaxTime + 1), TT : {MaxTime}]

\* the Movement constructor: PT and TT as stored
Stored(p) == [PT |-> p.PT, TT |-> p.TT]

\* self.movements[mid] = mov for the valid entries of the payload, whose PT
\* and TT are data
ProgressAfter(data) ==
    [k \in DOMAIN movements' |->
        IF k \in DOMAIN data THEN Stored(data[k]) ELSE progress[k]]

GamProgress ==
    /\ UpdateFromPacketGam
    /\ \E data \in [packet'.valid -> Progress] : progress' = ProgressAfter(data)

MovProgress ==
    /\ UpdateFromPacketMov
    /\ \E data \in [packet'.valid -> Progress] : progress' = ProgressAfter(data)

GamWithEventsProgress ==
    /\ GamWithEvents
    /\ \E data \in [packet'.valid -> Progress] : progress' = ProgressAfter(data)

AtvProgress == UpdateFromPacketAtv /\ progress' = ProgressAfter(<<>>)

AtaProgress == UpdateFromPacketAta /\ progress' = ProgressAfter(<<>>)

CamProgress == UpdateFromPacketCam /\ progress' = ProgressAfter(<<>>)

ProgInit == progress = <<>>

ProgNext ==
    \/ GamProgress /\ UNCHANGED exceptProg
    \/ MovProgress /\ UNCHANGED exceptProg
    \/ GamWithEventsProgress /\ UNCHANGED exceptProg
    \/ AtvProgress /\ UNCHANGED exceptProg
    \/ AtaProgress /\ UNCHANGED exceptProg
    \/ CamProgress /\ UNCHANGED exceptProg

(***************************************************************************)
(* GameState._handle_gbd and _handle_dcl on players and castles            *)
(* (state/manager.py).  A Castle is an object: castles and the castles of  *)
(* a player hold references, and objects gives the value behind each       *)
(* reference in reach.  Of a castle the model keeps the name N that gbd    *)
(* sets and the wood balance that dcl sets; of a player, gold and castles. *)
(***************************************************************************)
Pids == 1..MaxPid
Areas == 1..MaxArea
NoPlayer == 0
CastleNames == {"a", "b"}

\* Enough references for every holder of a castle and one packet more.
Refs == 1..(MaxArea * (MaxPid + 2))

\* A gbd payload: gpi.PID (NoPlayer: no gpi), gcu.C1 (0: no gcu), the owner
\* of the gcl entry of each area (NoPlayer: the area is not listed) and the
\* name of the listed castles.
GbdPayloads ==
    [pid : Pids \cup {NoPlayer}, gcu : 0..MaxGold,
     gcl : [Areas -> Pids \cup {NoPlayer}], N : CastleNames]

\* A payload with nothing in it.
NoData ==
    [pid |-> NoPlayer, gcu |-> 0, gcl |-> [a \in Areas |-> NoPlayer],
     N |-> "a"]

\* The packet applied last: its command, its payload when it is a gbd, and
\* whether it is a gbd with the payload of the gbd applied just before it.
NoPacket == [cmd |-> "none", data |-> NoData, again |-> FALSE]

\* Player(...) as _handle_gbd creates it: no gold, no castle yet.
NewPlayer == [gold |-> 0, castles |-> <<>>]

\* Castle(OID=area_id, N=name, KID=kid, X=x, Y=y)
NewCastle(name) == [N |-> name, wood |-> 0]

\* The references held by the store or by a player.
Held(cs, ps) ==
    {cs[a] : a \in DOMAIN cs}
    \cup UNION {{ps[p].castles[a] : a \in DOMAIN ps[p].castles} : p \in DOMAIN ps}

\* The k-th smallest element of a set of numbers.
Nth(S, k) == CHOOSE x \in S : Cardinality({y \in S : y < x}) = k - 1

\* _handle_gbd, step 1: the player of gpi is created unless known, and
\* becomes the local player.
PlayersAfterGpi(p) ==
    IF p.pid # NoPlayer /\ p.pid \notin DOMAIN players
    THEN [q \in DOMAIN players \cup {p.pid} |->
            IF q = p.pid THEN NewPlayer ELSE players[q]]
    ELSE players

LocalAfterGpi(p) == IF p.pid # NoPlayer THEN p.pid ELSE local_player

\* step 5: the areas of gcl owned by the local player
Owned(p) ==
    IF LocalAfterGpi(p) = NoPlayer THEN {}
    ELSE {a \in Areas : p.gcl[a] = LocalAfterGpi(p)}

\* the new Castle object of an owned area
NewRef(p, a) ==
    Nth(Refs \ DOMAIN objects, Cardinality({b \in Owned(p) : b < a}) + 1)

\* self.castles[area_id] = castle; every other castle of the store stays,
\* whoever the local player is
CastlesAfterGbd(p) ==
    [a \in DOMAIN castles \cup Owned(p) |->
        IF a \in Owned(p) THEN NewRef(p, a) ELSE castles[a]]

\* A gcu whose amount is added to the gold of the player.
GoldAdded(old, gcu) == old + gcu

\* step 3: self.local_player.gold = gcu.get("C1", 0), if there is a gcu
GoldAfter(old, gcu) == IF gcu # 0 THEN gcu ELSE old

\* steps 3 and 5 on the local player: gold, and
\* self.local_player.castles[area_id] = castle
PlayersAfterGbd(p) ==
    LET ps == PlayersAfterGpi(p)
        me == LocalAfterGpi(p)
    IN  [q \in DOMAIN ps |->
            IF q # me THEN ps[q]
            ELSE [gold |-> GoldAfter(ps[q].gold, p.gcu),
                  castles |->
                      [a \in DOMAIN ps[q].castles \cup Owned(p) |->
                          IF a \in Owned(p) THEN NewRef(p, a)
                          ELSE ps[q].castles[a]]]]

\* The objects in reach after the packet.
ObjectsAfterGbd(p) ==
    [r \in Held(CastlesAfterGbd(p), PlayersAfterGbd(p)) |->
        IF r \in DOMAIN objects THEN objects[r] ELSE NewCastle(p.N)]

\* GameState._handle_gbd
HandleGbd ==
    \E p \in GbdPayloads :
        /\ gbd_count < MaxGbd
        /\ gbd_count' = gbd_count + 1
        /\ local_player' = LocalAfterGpi(p)
        /\ players' = PlayersAfterGbd(p)
        /\ castles' = CastlesAfterGbd(p)
        /\ objects' = ObjectsAfterGbd(p)
        /\ gbd_last' = [cmd |-> "gbd", data |-> p,
                        again |-> gbd_last.cmd = "gbd" /\ gbd_last.data = p]

\* GameState._handle_dcl on the castle of one area, as far as the balance
\* goes: an area that is not in castles is skipped, else the object is
\* changed in place.
HandleDclOf ==
    \E a \in Areas, w \in Woods :
        /\ objects' = IF a \in DOMAIN castles
                      THEN [objects EXCEPT ![castles[a]].wood = w]
                      ELSE objects
        /\ gbd_last' = [cmd |-> "dcl", data |-> NoData, again |-> FALSE]
        /\ UNCHANGED <<players, local_player, castles, gbd_count>>

\* The unit dicts a dcl can carry in UN, after int() of keys and counts.
UnitDicts == UNION {[S -> 1..MaxCount] : S \in SUBSET (1..MaxUnitId)}

\* _handle_gbd with the units: a Castle made by the packet has the empty
\* dict of its default, every other object keeps its units, and the
\* armies are not touched.
HandleGbdUnits ==
    /\ HandleGbd
    /\ units' = [r \in DOMAIN objects' |->
                    IF r \in DOMAIN objects THEN units[r] ELSE <<>>]
    /\ UNCHANGED armies

\* _handle_dcl on the castle of one area, as far as the units go: an area
\* that is not in castles is skipped, else castle.units is cleared and
\* refilled from UN and armies[aid] becomes an Army of a copy of it.
HandleDclUnits ==
    \E a \in Areas, un \in UnitDicts :
        /\ IF a \in DOMAIN castles
           THEN /\ units' = [units EXCEPT ![castles[a]] = un]
                /\ armies' = [b \in DOMAIN armies \cup {a} |->
                                 IF b = a THEN un ELSE armies[b]]
           ELSE UNCHANGED armyVars
        /\ gbd_last' = [cmd |-> "dcl", data |-> NoData, again |-> FALSE]
        /\ UNCHANGED <<players, local_player, castles, objects, gbd_count>>

\* GameState.__init__: self.armies = {}
ArmyInit ==
    /\ units = <<>>
    /\ armies = <<>>

ArmyNext ==
    \/ HandleGbdUnits /\ UNCHANGED exceptArmy
    \/ HandleDclUnits /\ UNCHANGED exceptArmy

(***************************************************************************)
(* BuildingManager (automation/building_queue.py).  add_task appends a     *)
(* task and sorts the queue by priority, highest first; process_queue      *)
(* starts, for every castle of the queue that is known and has no build in *)
(* progress, the first task it can afford and whose upgrade succeeds.      *)
(***************************************************************************)
\* The castles tasks are added for; the last one is not a castle of the
\* player.
TaskCastles == 1..(MaxCastle + 1)
KnownCastles == 1..MaxCastle
Priorities == 0..MaxPriority

\* BuildingTask(castle_id, building_id, priority), costs at their default
BuildingTask(c, b, p) ==
    [castle_id |-> c, building_id |-> b, priority |-> p, cost_wood |-> 0]

\* list.sort(key=lambda t: t.priority, reverse=True): stable, so tasks of
\* one priority keep their order.
RECURSIVE ByPriority(_, _)
ByPriority(q, p) ==
    IF p < 0 THEN <<>>
    ELSE SelectSeq(q, LAMBDA t : t.priority = p) \o ByPriority(q, p - 1)

\* BuildingManager._sort_queue
SortQueue(q) == ByPriority(q, MaxPriority)

\* BuildingManager.add_task
AddTask ==
    \E c \in TaskCastles, b \in BuildingIds, p \in Priorities :
        /\ Len(queue) < MaxTasks
        /\ queue' = SortQueue(Append(queue, BuildingTask(c, b, p)))
        /\ UNCHANGED in_progress

\* BuildingManager.can_afford, on the wood of the castle
CanAfford(wood, task) == wood >= task.cost_wood

\* tasks_by_castle[castle_id]
TasksOf(c) == SelectSeq(queue, LAMBDA t : t.castle_id = c)

\* The tasks of the castle that process_queue can start: affordable, and
\* upgrade_building succeeds for them (ok: the castle and building pairs
\* whose upgrade succeeds).
Startable(c, wood, ok) ==
    SelectSeq(TasksOf(c),
              LAMBDA t : CanAfford(wood, t) /\ <<c, t.building_id>> \in ok)

\* The castles process_queue starts a build in.
Starting(wood, ok) ==
    {c \in KnownCastles :
        c \notin DOMAIN in_progress /\ Startable(c, wood, ok) # <<>>}

\* BuildingManager.process_queue with execute_task: in every castle of
\* Starting the first startable task is recorded in in_progress, and the
\* tasks of that castle and building leave the queue.
ProcessQueue(ok) ==
    \E wood \in Woods :
        LET S == Starting(wood, ok)
            first == [c \in S |-> Head(Startable(c, wood, ok))]
        IN  /\ queue # <<>>
            /\ in_progress' = [c \in DOMAIN in_progress \cup S |->
                                 IF c \in S THEN first[c] ELSE in_progress[c]]
            /\ queue' = SelectSeq(queue,
                    LAMBDA t : ~(/\ t.castle_id \in S
                                 /\ t.building_id
                                        = first[t.castle_id].building_id))

\* every upgrade_building call succeeds
AllOk == KnownCastles \X BuildingIds

\* BuildingManager.__init__
BuildInit ==
    /\ queue = <<>>
    /\ in_progress = <<>>

BuildNext ==
    \/ AddTask /\ UNCHANGED exceptBuild
    \/ \E ok \in SUBSET AllOk : ProcessQueue(ok) /\ UNCHANGED exceptBuild

(***************************************************************************)
(* TaskScheduler (automation/scheduler.py).  _check_tasks reads the clock  *)
(* once and goes through the tasks: a disabled task is skipped, a task     *)
(* that is due has its callback called, and last_run is set after the      *)
(* callback has returned; an exception of the callback is logged.          *)
(***************************************************************************)
TaskNames == {"a", "b", "c"}
Intervals == 1..MaxInterval

\* last_run: Optional[datetime] = None
NoRun == -1

\* ScheduledTask(name, callback, interval)
ScheduledTask(interval) ==
    [interval |-> interval, last_run |-> NoRun, enabled |-> TRUE]

\* TaskScheduler.add_task
SchedulerAddTask ==
    \E n \in TaskNames, i \in Intervals :
        /\ tasks' = [m \in DOMAIN tasks \cup {n} |->
                        IF m = n THEN ScheduledTask(i) ELSE tasks[m]]
        /\ UNCHANGED <<checked_at, invoked, failed>>

\* TaskScheduler.remove_task
RemoveTask ==
    \E n \in DOMAIN tasks :
        /\ tasks' = [m \in DOMAIN tasks \ {n} |-> tasks[m]]
        /\ UNCHANGED <<checked_at, invoked, failed>>

\* TaskScheduler.enable_task
EnableTask ==
    \E n \in DOMAIN tasks :
        /\ ~tasks[n].enabled
        /\ tasks' = [tasks EXCEPT ![n].enabled = TRUE]
        /\ UNCHANGED <<checked_at, invoked, failed>>

\* TaskScheduler.disable_task
DisableTask ==
    \E n \in DOMAIN tasks :
        /\ tasks[n].enabled
        /\ tasks' = [tasks EXCEPT ![n].enabled = FALSE]
        /\ UNCHANGED <<checked_at, invoked, failed>>

\* _check_tasks: should_run
ShouldRun(task, at) ==
    IF task.last_run = NoRun THEN TRUE
    ELSE at - task.last_run >= task.interval

\* last_run stamped whatever the callback did
LastRunStamped(task, at, raises) == at

\* _check_tasks: `task.last_run = now` is the last statement of the try
LastRunAfter(task, at, raises) ==
    IF raises THEN task.last_run ELSE at

\* TaskScheduler._check_tasks at the time `now`, the callbacks of the tasks
\* in raising raising an Exception.
CheckTasks ==
    \E at \in (checked_at + 1)..MaxNow, raising \in SUBSET TaskNames :
        LET run == {n \in DOMAIN tasks :
                        tasks[n].enabled /\ ShouldRun(tasks[n], at)}
        IN  /\ raising \subseteq run
            /\ checked_at' = at
            /\ invoked' = run
            /\ failed' = raising
            /\ tasks' = [n \in DOMAIN tasks |->
                            IF n \in run
                            THEN [tasks[n] EXCEPT !.last_run =
                                    LastRunAfter(tasks[n], at, n \in raising)]
                            ELSE tasks[n]]

\* TaskScheduler.__init__
SchedInit ==
    /\ tasks = <<>>
    /\ checked_at = 0
    /\ invoked = {}
    /\ failed = {}

SchedNext ==
    \/ SchedulerAddTask /\ UNCHANGED exceptSched
    \/ RemoveTask /\ UNCHANGED exceptSched
    \/ EnableTask /\ UNCHANGED exceptSched
    \/ DisableTask /\ UNCHANGED exceptSched
    \/ CheckTasks /\ UNCHANGED exceptSched

\* GameState.__init__
GbdInit ==
    /\ players = <<>>
    /\ local_player = NoPlayer
    /\ castles = <<>>
    /\ objects = <<>>
    /\ gbd_last = NoPacket
    /\ gbd_count = 0

GbdNext ==
    \/ HandleGbd /\ UNCHANGED exceptGbd
    \/ HandleDclOf /\ UNCHANGED exceptGbd

(***************************************************************************)
(* EmpireClient.scan_kingdom (client/client.py).  A chunk is <<cx, cy>>;   *)
(* every chunk of content holds one owned object of a wanted type, every   *)
(* other chunk answers with an empty AI list.  The scanning thread is      *)
(* followed through its loop: at the head of a pass ("running") it filters *)
(* and requests the wave, then waits for the batch ("waiting") while the   *)
(* gaa subscriber answers, and then closes the wave.                       *)
(***************************************************************************)
\* MAX_COORD = 20
MAX_COORD == 20

\* The chunks the scan can start from: the one of the spec's scenario, one
\* in a corner of the map and one by its far side.
ScanStarts == {<<7, 7>>, <<0, 0>>, <<19, 10>>}

\* |n|
Abs(n) == IF n < 0 THEN 0 - n ELSE n

\* The chunks within d steps of a chunk.
Around(c, d) ==
    {<<x, y>> \in ((c[1] - d)..(c[1] + d)) \X ((c[2] - d)..(c[2] + d)) :
        /\ Abs(x - c[1]) + Abs(y - c[2]) <= d
        /\ x >= 0 /\ y >= 0 /\ x <= MAX_COORD /\ y <= MAX_COORD}

\* The chunks of the last two columns of the grid.
FarColumns ==
    {c \in (0..MAX_COORD) \X (0..MAX_COORD) : c[1] >= MAX_COORD - 1}

\* The maps a scan from a chunk is run over: objects around the start, or in
\* every chunk of the far columns.
Maps(start) == SUBSET Around(start, MaxSpread) \cup {FarColumns}

NoBounds == [min_x |-> FALSE, max_x |-> FALSE, min_y |-> FALSE, max_y |-> FALSE]

\* "Filter valid chunks for this wave": the chunks of the wave not visited
\* yet and not clearly out of bounds
ValidChunks ==
    {c \in current_wave :
        /\ c \notin visited
        /\ ~(c[1] < 0 \/ c[2] < 0 \/ c[1] > MAX_COORD \/ c[2] > MAX_COORD)}

Min(S) == CHOOSE x \in S : \A y \in S : x <= y
Max(S) == CHOOSE x \in S : \A y \in S : x >= y

WaveMinX == Min({c[1] : c \in valid_chunks})
WaveMaxX == Max({c[1] : c \in valid_chunks})
WaveMinY == Min({c[2] : c \in valid_chunks})
WaveMaxY == Max({c[2] : c \in valid_chunks})

\* edge_min_x_empty ... edge_max_y_empty: no chunk of the wave's edge
\* answered with content (a chunk without an answer counts as empty)
EdgeEmpty ==
    [min_x |-> \E m \in {WaveMinX} :
                  \A c \in valid_chunks : c[1] = m => c \notin chunk_responses,
     max_x |-> \E m \in {WaveMaxX} :
                  \A c \in valid_chunks : c[1] = m => c \notin chunk_responses,
     min_y |-> \E m \in {WaveMinY} :
                  \A c \in valid_chunks : c[2] = m => c \notin chunk_responses,
     max_y |-> \E m \in {WaveMaxY} :
                  \A c \in valid_chunks : c[2] = m => c \notin chunk_responses]

\* "Update boundary flags": an empty edge counts only next to the limits of
\* the chunk grid
BoundedAfterWave ==
    [min_x |-> bounded.min_x \/ (EdgeEmpty.min_x /\ WaveMinX <= 1),
     max_x |-> bounded.max_x \/ (EdgeEmpty.max_x /\ WaveMaxX >= MAX_COORD - 1),
     min_y |-> bounded.min_y \/ (EdgeEmpty.min_y /\ WaveMinY <= 1),
     max_y |-> bounded.max_y \/ (EdgeEmpty.max_y /\ WaveMaxY >= MAX_COORD - 1)]

\* The neighbours of a chunk in the directions that are not bounded.
Neighbors(c, b) ==
    (IF b.min_x THEN {} ELSE {<<c[1] - 1, c[2]>>})
    \cup (IF b.max_x THEN {} ELSE {<<c[1] + 1, c[2]>>})
    \cup (IF b.min_y THEN {} ELSE {<<c[1], c[2] - 1>>})
    \cup (IF b.max_y THEN {} ELSE {<<c[1], c[2] + 1>>})

\* "Add neighbors for next wave"
NextWave(b) ==
    {n \in UNION {Neighbors(c, b) : c \in valid_chunks} : n \notin visited}

AllBounded(b) == b.min_x /\ b.max_x /\ b.min_y /\ b.max_y

\* The answers that arrive together: those of every pending chunk, of the
\* pending chunks with content, or of those without.
Answers ==
    {pending_chunks, pending_chunks \cap content, pending_chunks \ content}
    \ {{}}

\* scan_kingdom is called: the start chunk is the first wave.
ScanBegin ==
    \E start \in ScanStarts :
        \E map \in Maps(start) :
            /\ scan_pc = "idle"
            /\ scan_pc' = "running"
            /\ content' = map
            /\ current_wave' = {start}
            /\ UNCHANGED <<visited, valid_chunks, pending_chunks,
                           chunk_responses, requests, bounded,
                           waves_processed, collected_items, timed_out>>

\* The loop finds the overall timeout elapsed and breaks.
ScanTimeout ==
    /\ scan_pc = "running"
    /\ scan_pc' = "done"
    /\ timed_out' = TRUE
    /\ UNCHANGED <<content, current_wave, visited, valid_chunks,
                   pending_chunks, chunk_responses, requests, bounded,
                   waves_processed, collected_items>>

\* The loop finds the wave empty, or no chunk of it left to request, and
\* ends.
ScanExhausted ==
    /\ scan_pc = "running"
    /\ ValidChunks = {}
    /\ scan_pc' = "done"
    /\ UNCHANGED <<content, current_wave, visited, valid_chunks,
                   pending_chunks, chunk_responses, requests, bounded,
                   waves_processed, collected_items, timed_out>>

\* A batch that is sent without its chunks being marked visited.
ScanSendUnmarked ==
    /\ scan_pc = "running"
    /\ ValidChunks # {}
    /\ valid_chunks' = ValidChunks
    /\ pending_chunks' = pending_chunks \cup ValidChunks
    /\ requests' = requests (+) SetToBag(ValidChunks)
    /\ scan_pc' = "waiting"
    /\ UNCHANGED <<content, current_wave, visited, chunk_responses, bounded,
                   waves_processed, collected_items, timed_out>>

\* "Send this batch": the valid chunks of the wave are marked visited, put
\* into pending_chunks and requested, one request each.
ScanSend ==
    /\ scan_pc = "running"
    /\ ValidChunks # {}
    /\ valid_chunks' = ValidChunks
    /\ visited' = visited \cup ValidChunks
    /\ pending_chunks' = pending_chunks \cup ValidChunks
    /\ requests' = requests (+) SetToBag(ValidChunks)
    /\ scan_pc' = "waiting"
    /\ UNCHANGED <<content, current_wave, chunk_responses, bounded,
                   waves_processed, collected_items, timed_out>>

\* handle_gaa_response, for the answers that arrive together
GaaResponses ==
    \E answered \in Answers :
        /\ scan_pc = "waiting"
        /\ chunk_responses' = chunk_responses \cup (answered \cap content)
        /\ pending_chunks' = pending_chunks \ answered
        /\ collected_items' = collected_items \cup (answered \cap content)
        /\ UNCHANGED <<scan_pc, content, current_wave, visited, valid_chunks,
                       requests, bounded, waves_processed, timed_out>>

\* "Batch timeout": ten seconds have passed with chunks still pending.
BatchTimeout ==
    /\ scan_pc = "waiting"
    /\ pending_chunks # {}
    /\ pending_chunks' = {}
    /\ UNCHANGED <<scan_pc, content, current_wave, visited, valid_chunks,
                   chunk_responses, requests, bounded, waves_processed,
                   collected_items, timed_out>>

\* The batch is complete: the wave is counted, the boundary flags are
\* updated, the next wave is built, and the loop breaks when all four flags
\* are set.
ScanWave ==
    /\ scan_pc = "waiting"
    /\ pending_chunks = {}
    /\ waves_processed' = waves_processed + 1
    /\ \E b \in {BoundedAfterWave} :
          /\ bounded' = b
          /\ IF AllBounded(b)
             THEN scan_pc' = "done" /\ UNCHANGED current_wave
             ELSE current_wave' = NextWave(b) /\ scan_pc' = "running"
    /\ UNCHANGED <<content, visited, valid_chunks, pending_chunks,
                   chunk_responses, requests, collected_items,
                   timed_out>>

ScanInit ==
    /\ scan_pc = "idle"
    /\ content = {}
    /\ current_wave = {}
    /\ visited = {}
    /\ valid_chunks = {}
    /\ pending_chunks = {}
    /\ chunk_responses = {}
    /\ requests = EmptyBag
    /\ bounded = NoBounds
    /\ waves_processed = 0
    /\ collected_items = {}
    /\ timed_out = FALSE

\* The steps of a scan other than the overall timeout.
ScanStep ==
    \/ ScanExhausted
    \/ ScanSend
    \/ GaaResponses
    \/ BatchTimeout
    \/ ScanWave

ScanNext ==
    \/ ScanBegin /\ UNCHANGED exceptScan
    \/ ScanTimeout /\ UNCHANGED exceptScan
    \/ ScanExhausted /\ UNCHANGED exceptScan
    \/ ScanSend /\ UNCHANGED exceptScan
    \/ GaaResponses /\ UNCHANGED exceptScan
    \/ BatchTimeout /\ UNCHANGED exceptScan
    \/ ScanWave /\ UNCHANGED exceptScan

\* SFSConnection.__init__
ConnInit ==
    /\ ws = "none" /\ session = FALSE
    /\ read_task = "none" /\ reader = "loop"
    /\ closer = "idle" /\ disconnecting = FALSE
    /\ futures = <<>> /\ waiters = <<>>
    /\ last_packet = [cmd |-> "none", tag |-> "none"]
    /\ dispatched = 0 /\ handled = 0
    /\ on_close_task = FALSE

ConnNext ==
    \/ Connect /\ UNCHANGED <<movVars, reqVars, cliVars>>
    \/ WaitFor /\ UNCHANGED <<movVars, reqVars, cliVars>>
    \/ \E i \in 1..MaxFutures : Timeout(i) /\ UNCHANGED <<movVars, reqVars, cliVars>>
    \/ \E i \in 1..MaxFutures : Cleanup(i) /\ UNCHANGED <<movVars, reqVars, cliVars>>
    \/ \E i \in 1..MaxFutures : Resume(i) /\ UNCHANGED <<movVars, reqVars, cliVars>>
    \/ DispatchPacket /\ UNCHANGED <<movVars, reqVars, cliVars>>
    \/ PacketHandler /\ UNCHANGED <<movVars, reqVars, cliVars>>
    \/ ReadLoopEnds /\ UNCHANGED <<movVars, reqVars, cliVars>>
    \/ WsClosed /\ UNCHANGED <<movVars, reqVars, cliVars>>
    \/ LoopSessionClosed /\ UNCHANGED <<movVars, reqVars, cliVars>>
    \/ OnClose /\ UNCHANGED <<movVars, reqVars, cliVars>>
    \/ Disconnect /\ UNCHANGED <<movVars, reqVars, cliVars>>
    \/ DisconnectResumes /\ UNCHANGED <<movVars, reqVars, cliVars>>
    \/ DisconnectSessionClosed /\ UNCHANGED <<movVars, reqVars, cliVars>>

\* GameState.__init__
MovInit ==
    /\ movements = <<>>
    /\ previous_movement_ids = {}
    /\ packet = Packet("none", "none", {}, {})
    /\ events = {}

MovNext ==
    \/ UpdateFromPacketGam /\ UNCHANGED <<connVars, reqVars, cliVars>>
    \/ UpdateFromPacketMov /\ UNCHANGED <<connVars, reqVars, cliVars>>
    \/ UpdateFromPacketAtv /\ UNCHANGED <<connVars, reqVars, cliVars>>
    \/ UpdateFromPacketAta /\ UNCHANGED <<connVars, reqVars, cliVars>>
    \/ UpdateFromPacketCam /\ UNCHANGED <<connVars, reqVars, cliVars>>
    \/ GamWithEvents /\ UNCHANGED <<connVars, reqVars, cliVars>>

ReqNext ==
    \/ ClientSendWrites
    \/ ClientSendWaits
    \/ ActionRegisters
    \/ ActionWrites
    \/ ActionSendFails
    \/ DispatchResponse
    \/ CallReturns
    \/ ConnNext

\* EmpireClient.send with a wait, over the connection.
RetNext ==
    \/ ClientSendWrites
    \/ ClientSendWaits
    \/ DispatchResponse
    \/ ClientSendReturns
    \/ ConnNext

\* A new client: GameState.__init__, SFSConnection.__init__ and no call
Init == MovInit /\ ConnInit /\ ReqInit /\ LoginInit /\ SubInit /\ DclInit
        /\ SendInit /\ HistInit /\ StampInit /\ ProgInit
        /\ GbdInit /\ ScanInit /\ RetInit
        /\ FrameInit /\ PoolInit /\ HsInit /\ ArmyInit
        /\ SessInit /\ BuildInit /\ SchedInit

\* The state store under any sequence of movement packets.
SpecMov == Init /\ [][MovNext]_vars

\* The movements with their created_at, each packet at a later tick.
SpecStamp == Init /\ [][StampNext]_vars

\* The movements with their PT and TT.
SpecProg == Init /\ [][ProgNext]_vars

\* Players and castles under any sequence of gbd and dcl packets.
SpecGbd == Init /\ [][GbdNext]_vars

\* Castles, their units and the armies under gbd and dcl packets.
SpecArmy == Init /\ [][ArmyNext]_vars

\* The client over a connection that can be lost or closed at any time.
SpecSession == Init /\ [][SessNext]_vars

\* The event loop keeps running: a closing that has begun goes on.
SpecSessionLive ==
    SpecSession /\ WF_vars(SessStep /\ UNCHANGED exceptSession)

\* The build queue under add_task and process_queue.
SpecBuild == Init /\ [][BuildNext]_vars

\* process_queue is called again and again, and its upgrades succeed.
SpecBuildLive ==
    SpecBuild /\ WF_vars(ProcessQueue(AllOk) /\ UNCHANGED exceptBuild)

\* The scheduler under add, remove, enable, disable and check.
SpecSched == Init /\ [][SchedNext]_vars

\* login() against a server that answers every frame in time.
SpecHandshake == Init /\ [][HsNext]_vars

\* The thread of login(), the reader and the timers keep running.
SpecHandshakeLive ==
    SpecHandshake /\ WF_vars(HsStep /\ UNCHANGED exceptHandshake)

\* Concurrent callers of the account pool.
SpecPool == Init /\ [][PoolNext]_vars

\* The read loop with frames that do not decode among the packets.
SpecFrame == Init /\ [][FrameNext]_vars

\* Calls of EmpireClient.send that wait, with what they return.
SpecRet == Init /\ [][RetNext]_vars

\* A kingdom scan from any of the starts over any of the maps.
SpecScan == Init /\ [][ScanNext]_vars

\* The scanning thread keeps running and the clock of the batch wait
\* advances; the overall timeout is not counted on.
SpecScanLive == SpecScan /\ WF_vars(ScanStep /\ UNCHANGED exceptScan)

\* The connection under any interleaving of its callers, its read task and
\* its timers.
SpecConn == Init /\ [][ConnNext]_vars

\* The same, with the scheduling of the event loop: the timer of a pending
\* wait_for fires, and the callbacks of a completed future and its awaiter run.
SpecConnLive ==
    /\ SpecConn
    /\ \A i \in 1..MaxFutures :
        /\ WF_vars(Timeout(i) /\ UNCHANGED <<movVars, reqVars, cliVars>>)
        /\ WF_vars(Cleanup(i) /\ UNCHANGED <<movVars, reqVars, cliVars>>)
        /\ WF_vars(Resume(i) /\ UNCHANGED <<movVars, reqVars, cliVars>>)

\* The handshake of login() under any responses and timeouts.
SpecLogin == Init /\ [][LoginNext]_vars

\* The subscribers under any registrations and inbound packets.
SpecSub == Init /\ [][SubNext]_vars

\* A castle under dcl packets and a reading thread.
SpecDcl == Init /\ [][DclNext]_vars

\* The connection's socket with tasks that call send().
SpecSend == Init /\ [][SendNext]_vars

\* The connection with the history of its waiters.
SpecHist == Init /\ [][HistNext]_vars

\* The connection with a caller of the request API.
SpecReq == Init /\ [][ReqNext]_vars

(***************************************************************************)
(* Claims about the dispatch of inbound packets and the waiters.           *)
(***************************************************************************)
\* The futures a step resolves with a packet.
Resolved ==
    {i \in FutureIds : futures[i].status = "pending"
                       /\ futures'[i].status = "result"}

\* The pending waiters of the bucket of a command whose predicate accepts the
\* packet, read off the table.
Matching(pkt) ==
    {i \in FutureIds :
        /\ futures[i].status = "pending"
        /\ \E pred \in Predicates :
            /\ pkt.cmd \in DOMAIN waiters
            /\ [fut |-> i, pred |-> pred] \in waiters[pkt.cmd]
            /\ Accepts(pred, pkt)}

\* A step of _dispatch_packet up to the packet handler.
IsDispatch == dispatched' = dispatched + 1

\* C1: a waiter holds packet P as its result only once the packet handler of
\* P (store update and subscribers) has returned.
C1_HandlerRunsBeforeWaiterResolved ==
    \A i \in FutureIds :
        futures[i].status = "result" => handled >= futures[i].result

\* C2: when the awaiter of a waiter resolved with packet P resumes, the packet
\* handler of P has returned, so the store holds P's updates.
C2_StoreUpdatedWhenCallerResumes ==
    [][\A i \in FutureIds :
         (futures[i].status = "result" /\ ~futures[i].resumed
          /\ futures'[i].resumed)
         => handled >= futures[i].result]_vars

C4_ResponseNeverMissed == call.answer # "missed"

\* A close is in progress: the finally block of the read loop or a
\* disconnect() call has started and not finished.
Closing == closer # "idle" \/ disconnecting

\* C5: every step that takes the connection from open to not open starts a
\* close, and the step that ends a close fails every waiter pending at that
\* moment with the "Connection closed" error, leaves no future pending and
\* leaves the waiter table empty.
C5_CloseFailsEveryPendingWaiter ==
    [][/\ (connected /\ ~connected') => Closing'
       /\ (Closing /\ ~Closing')
          => /\ \A i \in FutureIds :
                  /\ futures[i].status = "pending"
                     => futures'[i].status = "exception"
                  /\ futures'[i].status # "pending"
             /\ waiters' = <<>>]_vars

\* A close has ended and two waiters failed with the error.
C5_Witness ==
    /\ ~Closing /\ ~connected /\ read_task = "done"
    /\ \E i, j \in FutureIds :
        /\ i # j
        /\ futures[i].status = "exception" /\ futures[j].status = "exception"

\* C6: every wait_for call completes, its awaiter resumes, and it does so
\* with one outcome: the packet, the timeout or the "Connection closed"
\* error; no future is completed twice.
C6_EveryWaitCompletesOnce ==
    /\ [](\A i \in FutureIds :
            /\ futures[i].completions <= 1
            /\ futures[i].resumed
               => /\ futures[i].completions = 1
                  /\ futures[i].status \in {"result", "cancelled", "exception"})
    /\ \A i \in 1..MaxFutures :
        (i \in FutureIds) ~> (i \in FutureIds /\ futures[i].resumed)

\* Both awaiters have resumed, one with a packet and one with the timeout.
C6_Witness ==
    \E i, j \in FutureIds :
        /\ futures[i].resumed /\ futures[i].status = "result"
        /\ futures[j].resumed /\ futures[j].status = "cancelled"

(***************************************************************************)
(* Claims about login().                                                   *)
(***************************************************************************)
IsPrefix(a, b) == Len(a) <= Len(b) /\ \A k \in 1..Len(a) : a[k] = b[k]

\* The step is a wait of login() ending with this outcome.
Obtains(outcome) == obtained' = Append(obtained, outcome)

C12_EarlyTimeoutIsFatal ==
    /\ [][(login_pc \in {"apiOK", "rlu"} /\ Obtains("timeout"))
          => /\ login_result'.kind = "TimeoutError"
             /\ login_result'.step = login_pc
             /\ login_pc' = "idle"
             /\ frames' = frames
             /\ is_logged_in' = is_logged_in]_vars
    /\ [][(login_result.kind = "TimeoutError" /\ frames' # frames)
          => logins' = logins + 1]_vars

\* The zone login timed out after the version check went through.
C12_Witness ==
    /\ login_result = Result("TimeoutError", "rlu", 0)
    /\ frames = <<"verChk", "login">> /\ ~is_logged_in

C14_OtherCodeIsAuthFailure ==
    [][Obtains("lli")
       => /\ lli_response'.error_code \notin {0, LOGIN_COOLDOWN}
             => /\ login_result' =
                      Result("LoginError", "none", lli_response'.error_code)
                /\ is_logged_in' = is_logged_in
          /\ lli_response'.error_code = 0
             <=> (login_result'.kind = "ok" /\ is_logged_in')
          /\ lli_response'.error_code # 0 => is_logged_in' = is_logged_in]_vars

\* The login was refused with the code next to the cooldown code.
C14_Witness ==
    /\ login_result = Result("LoginError", "none", LOGIN_COOLDOWN + 1)
    /\ lli_response.error_code = LOGIN_COOLDOWN + 1
    /\ ~is_logged_in

\* C15: a timeout of the wait for joinOK does not end login(): the lli frame
\* is sent by that step and the call goes on to wait for lli; the call then
\* ends by the lli response alone ("ok" exactly for error_code 0).
C15_JoinTimeoutIsNotFatal ==
    [][/\ (login_pc = "joinOK" /\ Obtains("timeout"))
          => /\ frames' = Append(frames, "lli")
             /\ login_pc' = "lli"
             /\ login_result' = login_result
             /\ login_result'.kind = "none"
       /\ (Obtains("lli") /\ obtained[3] = "timeout")
          => /\ login_result'.kind # "TimeoutError"
             /\ login_result'.kind = "ok" <=> lli_response'.error_code = 0]_vars

\* A login() that succeeded although joinOK never came.
C15_Witness ==
    /\ is_logged_in /\ login_result.kind = "ok"
    /\ obtained = <<"apiOK", "rlu", "timeout", "lli">>
    /\ frames = <<"verChk", "login", "autoJoin", "lli">>

(***************************************************************************)
(* Claims about the subscribers.                                           *)
(***************************************************************************)
\* The step is an _on_packet call.
IsOnPacket == sub_dispatched' = sub_dispatched + 1

\* The handlers called for a packet, in the order of the calls.
HandlersCalledFor(pkt, log) ==
    LET idx == {k \in 1..Len(log) : log[k].pkt = pkt}
    IN  [k \in 1..Cardinality(idx) |->
            log[CHOOSE n \in idx : Cardinality({m \in idx : m < n}) = k - 1]
                .handler]

\* C16: for every inbound packet with command C, the handlers called for it
\* are the handlers registered for C, each once and in registration order,
\* and the calls of a packet precede those of the next one.
C16_EveryHandlerSeesEveryPacket ==
    [][IsOnPacket
       => /\ HandlersCalledFor(sub_dispatched', calls') = handlers[on_packet'.cmd]
          /\ \A k \in 1..Len(calls') :
                k > Len(calls) <=> calls'[k].pkt = sub_dispatched']_vars

\* Some handler raised on the packet of this step.
RaisedOn(pkt, log) == \E k \in 1..Len(log) : log[k].pkt = pkt /\ log[k].raised

\* C17: when a handler raises on a packet, every handler registered for the
\* packet's command is called with it all the same, no exception leaves
\* _on_packet, and this holds for every packet, those after such a packet
\* included.
C17_RaisingHandlerIsContained ==
    [][(IsOnPacket /\ RaisedOn(sub_dispatched', calls'))
       => /\ HandlersCalledFor(sub_dispatched', calls')
               = handlers[on_packet'.cmd]
          /\ on_packet'.end = "dispatched"
          /\ SubSeq(calls', 1, Len(calls)) = calls]_vars

\* The first handler raised on a packet, the second was called with it all
\* the same, and both were called with the next packet.
C17_Witness ==
    /\ Len(calls) = 4
    /\ calls[1].raised /\ calls[1].pkt = 1 /\ calls[2].pkt = 1
    /\ calls[1].handler # calls[2].handler
    /\ calls[3].pkt = 2 /\ calls[4].pkt = 2

(***************************************************************************)
(* Claims about readers of the store.                                      *)
(***************************************************************************)
\* C18: what a concurrent reader comes to see is the store before the
\* packet being applied or the store after it, never the packet half
\* applied.
C18_ReaderSeesWholePackets ==
    [][observed' # observed
       => observed' \in {boundary, DclApplied(boundary, dcl_data)}]_vars

(***************************************************************************)
(* Claims about send() and about waiters across connections.               *)
(***************************************************************************)
\* C19: at most one send() call is writing to the socket at any time.
C19_OneWriterAtATime == Cardinality(Writing) <= 1

\* C20: a waiter created while the connection was closed is never resolved
\* by a packet: no packet arrives on a closed connection, so a packet that
\* resolves it is of a later connection.
C20_ClosedWaiterNeverServed ==
    \A i \in made_closed : futures[i].status # "result"

(***************************************************************************)
(* Claims about the waiter table.                                          *)
(***************************************************************************)
\* The futures that have an entry in the waiter table.
Tabled == {e.fut : e \in Entries(waiters)}

\* C21: once the done callback of a waiter has run (after a timeout, a
\* cancellation or any other completion) the waiter has no entry in the
\* table, the table has no empty bucket, and a packet dispatched later leaves
\* a finished waiter as it is.
C21_FinishedWaiterLeavesTheTable ==
    /\ [](/\ \A i \in FutureIds : futures[i].cleaned => i \notin Tabled
          /\ \A c \in DOMAIN waiters : waiters[c] # {})
    /\ [][IsDispatch
          => \A i \in FutureIds :
               Done(futures[i]) => futures'[i] = futures[i]]_vars

\* A waiter timed out and its callback ran; another waiter is pending in the
\* table and a packet has been dispatched.
C21_Witness ==
    /\ \E i, j \in FutureIds :
        /\ futures[i].status = "cancelled" /\ futures[i].cleaned
        /\ futures[j].status = "pending" /\ Tabled = {j}
    /\ dispatched >= 1

(***************************************************************************)
(* Claims about the close hook.                                            *)
(***************************************************************************)
\* C22: every end of the read task (the connection has left open: by
\* disconnect(), a transport error or the peer's close) spawns the on_close
\* hook, nothing else spawns it, the hook does not run while the connection
\* is open, and the step that ends a close leaves the socket released.
C22_HookOncePerClosing ==
    [][/\ (read_task = "running" /\ read_task' # "running") => on_close_task'
       /\ (~on_close_task /\ on_close_task')
          => (read_task = "running" /\ read_task' = "done")
       /\ (on_close_task /\ ~on_close_task') => ~connected
       /\ (Closing /\ ~Closing') => (ws' = "none" /\ ~session')]_vars

(***************************************************************************)
(* Claims about the movement store.                                        *)
(***************************************************************************)
\* the ids for which the last handler call returned an event of this class
EventIds(kind, evs) == {m \in Mids : Event(kind, m) \in evs}

\* the last packet was a gam snapshot applied with delta detection
ByGamWithEvents(p) == p.cmd = "gam" /\ p.via = "_handle_gam_with_events"

\* C7: when a gam snapshot is applied (here: by the handler that detects
\* deltas), an incoming-attack event is emitted for exactly the attack-class
\* movements of the snapshot whose id was not in the previously observed set,
\* incoming to the local player or not.
C7_AttackEventForEveryNewAttack ==
    [][ByGamWithEvents(packet') =>
        EventIds("IncomingAttack", events') =
            {m \in packet'.valid : /\ m \notin previous_movement_ids
                                   /\ is_attack(movements'[m])}]_vars

\* C8: of two successive gam snapshots S1, S2 (both applied with delta
\* detection), the second emits a movement-recalled event for every id of
\* S1 \ S2, and a gam that follows the atv/ata arrival of an id emits none
\* for that id.
C8_RecalledEventForEveryVanishedId ==
    [][ByGamWithEvents(packet') =>
        /\ ByGamWithEvents(packet) =>
              \A m \in packet.valid \ packet'.mids :
                  Event("MovementRecalled", m) \in events'
        /\ packet.cmd \in {"atv", "ata"} =>
              \A m \in packet.mids :
                  Event("MovementRecalled", m) \notin events']_vars

\* C9: over mov packets and gam snapshots, the incoming-attack event of an
\* incoming attack-class movement fires at the packet that first brings its
\* id into the store, mov delta or gam snapshot, and not at a packet that
\* finds the id already there.
C9_AttackEventAtFirstObservation ==
    [][(packet'.cmd = "mov" \/ ByGamWithEvents(packet')) =>
        \A m \in packet'.valid :
            AlertsAttack(movements'[m]) =>
                (Event("IncomingAttack", m) \in events'
                    <=> m \notin DOMAIN movements)]_vars

\* C10: after a gam snapshot applied through update_from_packet the active
\* movement set holds the movements of the snapshot and no other: whatever
\* the snapshot does not name has been evicted.
C10_ActiveSetIsTheSnapshot ==
    (packet.cmd = "gam" /\ packet.via = "update_from_packet")
        => /\ packet.valid \subseteq DOMAIN movements
           /\ DOMAIN movements \subseteq packet.mids

\* C23: after an atv or ata packet with MID m, m is in neither the active set
\* nor the previous ids, and every other movement and id is as before (so a
\* packet for an id that is not tracked changes nothing).
C23_ArrivalRemovesOnlyItsId ==
    [][packet'.cmd \in {"atv", "ata"}
       => /\ \A m \in packet'.mids :
               m \notin DOMAIN movements' /\ m \notin previous_movement_ids'
          /\ \A k \in Mids \ packet'.mids :
               /\ k \in DOMAIN movements' <=> k \in DOMAIN movements
               /\ k \in DOMAIN movements => movements'[k] = movements[k]
               /\ k \in previous_movement_ids' <=> k \in previous_movement_ids]_vars

\* An atv for movement 1 was applied and movement 2 is still tracked.
C23_Witness ==
    /\ packet.cmd = "atv" /\ packet.mids = {1}
    /\ DOMAIN movements = {2}
    /\ previous_movement_ids = {2}

(***************************************************************************)
(* Claims about the fields of a tracked movement.                          *)
(***************************************************************************)
\* C24: the created_at of a movement id never changes while the id stays in
\* the active set, whichever of mov or gam updates it.
C24_CreatedAtIsKept ==
    [][\A k \in DOMAIN movements \cap DOMAIN movements' :
          created_at'[k] = created_at[k]]_vars

\* C29: every movement of the active set has 0 <= PT <= TT.
C29_ProgressWithinTotal ==
    \A k \in DOMAIN movements :
        0 <= progress[k].PT /\ progress[k].PT <= progress[k].TT

(***************************************************************************)
(* Claims about players and castles.                                       *)
(***************************************************************************)
\* The store as a reader sees it: the local player, and players and castles
\* with the value of each castle in place of its reference.
Seen(lp, ps, cs, os) ==
    [local_player |-> lp,
     players |-> [q \in DOMAIN ps |->
                     [gold |-> ps[q].gold,
                      castles |-> [a \in DOMAIN ps[q].castles |->
                                      os[ps[q].castles[a]]]]],
     castles |-> [a \in DOMAIN cs |-> os[cs[a]]]]

\* The step applies a gbd.
IsGbd == gbd_count' = gbd_count + 1

\* C25: a gbd whose payload is that of the gbd applied just before it leaves
\* the store as it was: same local player, same player fields, same castle
\* ids with equal castle values.
C25_GbdTwiceIsGbdOnce ==
    [][(IsGbd /\ gbd_last'.again)
       => Seen(local_player', players', castles', objects')
            = Seen(local_player, players, castles, objects)]_vars

\* The same gbd was applied twice in a row: it names player 1, sets the
\* gold and lists one castle of player 1 and one of another player.
C25_Witness ==
    /\ gbd_last.again /\ gbd_count = 2
    /\ gbd_last.data.pid = 1 /\ gbd_last.data.gcu = 1
    /\ gbd_last.data.gcl[1] = 1 /\ gbd_last.data.gcl[2] = 2
    /\ local_player = 1 /\ DOMAIN castles = {1}

\* C26: a gbd whose player is not the local player so far leaves in the
\* store only the castles that this gbd registers for the new player.
C26_PlayerChangeResetsTheStore ==
    [][(IsGbd /\ local_player # NoPlayer /\ local_player' # local_player)
       => \A a \in DOMAIN castles' :
            /\ gbd_last'.data.gcl[a] = local_player'
            /\ a \in DOMAIN players'[local_player'].castles]_vars

\* C27: every area of the local player's castles is in the castles of the
\* store, and both hold the same object.
C27_PlayerCastlesAreStoreCastles ==
    local_player # NoPlayer
    => \A a \in DOMAIN players[local_player].castles :
         /\ a \in DOMAIN castles
         /\ castles[a] = players[local_player].castles[a]

(***************************************************************************)
(* Claims about dcl.                                                       *)
(***************************************************************************)
\* The castle and army hold exactly the content of a dcl payload.
Holds(store, data) ==
    /\ store.castle.wood = data.W
    /\ store.castle.buildings = data.AC
    /\ store.castle.units = data.UN
    /\ store.army = data.UN

\* C28: when a dcl ends, the castle holds the content of the packet, and if
\* it held that content before the packet (a dcl with the same content was
\* applied earlier, however long ago), the castle and army are as they were:
\* nothing is added for the time between the packets.
C28_SameDclSameCastle ==
    [][(dcl_pc = "units" /\ dcl_pc' = "idle")
       => /\ Holds(Store', dcl_data)
          /\ Holds(boundary, dcl_data) => Store' = boundary]_vars

\* Two dcl packets with the same content, which is not the castle's first
\* content, have been applied.
C28_Witness ==
    /\ dcl_count = 2 /\ dcl_pc = "idle"
    /\ boundary = Store
    /\ Holds(Store, dcl_data)
    /\ castle.wood = 1 /\ castle.buildings = <<2>> /\ castle.units = {2}

(***************************************************************************)
(* Claims about the kingdom scan.                                          *)
(***************************************************************************)
\* C30: a wave whose edge chunks are all empty leaves that edge marked
\* bounded, and a scan from chunk (7, 7) over a map whose objects are in the
\* start chunk and its four neighbours, all of them answered and the scan
\* not cut short by the timeout, ends after two waves with those five
\* objects.
C30_EmptyEdgeBoundsTheScan ==
    /\ [][waves_processed' = waves_processed + 1
          => /\ EdgeEmpty.min_x => bounded'.min_x
             /\ EdgeEmpty.max_x => bounded'.max_x
             /\ EdgeEmpty.min_y => bounded'.min_y
             /\ EdgeEmpty.max_y => bounded'.max_y]_vars
    /\ []((/\ scan_pc = "done" /\ ~timed_out
           /\ <<7, 7>> \in visited
           /\ content = Around(<<7, 7>>, 1)
           /\ chunk_responses = content)
          => (waves_processed = 2 /\ collected_items = content))

C32_ResponseOrNone ==
    /\ (returned.answer = "missed" \/ returned.status = "result")
       => returned.value = "response"
    /\ returned.status = "cancelled" => returned.value = "None"

(***************************************************************************)
(* Claims about frames that do not decode.                                 *)
(***************************************************************************)
\* C33: a frame that fails to decode changes no future, no waiter and no
\* count of dispatched or handled packets, and leaves the read task running
\* at the head of its loop with the connection open, where the next
\* well-formed frame is dispatched.
C33_MalformedFrameIsDropped ==
    [][malformed' # malformed
       => /\ UNCHANGED <<futures, waiters, last_packet, dispatched, handled>>
          /\ read_task' = "running" /\ reader' = "loop" /\ closer' = "idle"
          /\ connected']_vars

\* A packet dispatched after a malformed frame has resolved a waiter and
\* been through the packet handler.
C33_Witness ==
    /\ malformed > 0
    /\ dispatched > dropped_at /\ handled = dispatched
    /\ \E i \in FutureIds :
           futures[i].status = "result" /\ futures[i].result > dropped_at

(***************************************************************************)
(* Claims about the account pool.                                          *)
(***************************************************************************)
\* The accounts a caller holds: logged in and returned to it, not released.
Leased(l) ==
    IF lease[l].pc \in {"leased", "releasing"} THEN {Target(l)} ELSE {}

\* C34: no account is logged in and returned to two callers, and an account
\* that a caller holds stays marked busy whatever the login attempts of the
\* other callers do.
C34_OneCallerPerAccount ==
    /\ [](\A l1, l2 \in Leasers : l1 # l2 => Leased(l1) \cap Leased(l2) = {})
    /\ [][\A l \in Leasers : \A a \in Leased(l) :
              (a \in busy_accounts /\ a \notin busy_accounts')
              => lease'[l].pc = "none"]_vars

(***************************************************************************)
(* Claims about the handshake.                                             *)
(***************************************************************************)
\* C35: against a server that answers every frame of the handshake, with
\* error_code 0 for lli, a login() that was called returns with
\* is_logged_in true and raises nothing, whenever the reader dispatches the
\* replies.
C35_HandshakeLogsIn ==
    /\ [](login_result.kind \in {"none", "ok"})
    /\ (login_pc # "idle")
       ~> (login_pc = "idle" /\ login_result.kind = "ok" /\ is_logged_in)

\* C36: after every packet that update_from_packet hands to the gam, mov,
\* atv, ata or cam handler, the previously observed movement ids are the
\* keys of the active movement map.
C36_PreviousIdsAreTheActiveIds ==
    packet.via = "update_from_packet"
        => previous_movement_ids = DOMAIN movements

\* C37: for every castle id that has an Army entry, the units of the Army
\* are the units of the castle registered under that id.
C37_ArmyMatchesCastle ==
    \A a \in DOMAIN armies :
        a \in DOMAIN castles /\ armies[a] = units[castles[a]]

\* C38: a logged-in client whose connection is lost or closed is
\* eventually not logged in; is_logged_in turns true only when a login()
\* succeeds; close() clears it at once; and once the hook has run for a
\* connection the client is not logged in while that connection is closed.
C38_LoggedOutAfterClose ==
    /\ (is_logged_in /\ ~connected) ~> ~is_logged_in
    /\ [][(~is_logged_in /\ is_logged_in')
            => (login_pc = "lli" /\ login_result'.kind = "ok")]_vars
    /\ [](hook_ran /\ ~connected => ~is_logged_in)

\* C39: with repeated process_queue calls every queued task of a known
\* castle is eventually executed, so that a castle with one build started
\* later starts its next one; the queue is in priority order.
C39_QueuedTasksAreExecuted ==
    /\ \A c \in KnownCastles, b \in BuildingIds :
          (\E i \in DOMAIN queue :
              queue[i].castle_id = c /\ queue[i].building_id = b)
          ~> ~(\E i \in DOMAIN queue :
                  queue[i].castle_id = c /\ queue[i].building_id = b)
    /\ [](\A i, j \in DOMAIN queue :
              i < j => queue[i].priority >= queue[j].priority)

\* C40: in a scheduler check a task whose callback raises keeps its
\* previous last_run and is due again; the check calls every enabled task
\* that is due, whichever of them raise, and no disabled task; a task that
\* raised in the last check and is still enabled is called by the next.
C40_RaisingTaskIsDueAgain ==
    [][checked_at' # checked_at
        => /\ \A n \in failed' :
                /\ tasks'[n].last_run = tasks[n].last_run
                /\ ShouldRun(tasks'[n], checked_at')
           /\ invoked' = {n \in DOMAIN tasks :
                            tasks[n].enabled
                            /\ ShouldRun(tasks[n], checked_at')}
           /\ \A n \in DOMAIN tasks : ~tasks[n].enabled => n \notin invoked'
           /\ \A n \in failed \cap DOMAIN tasks :
                tasks[n].enabled => n \in invoked']_vars

\* A check in which one callback raised, another task ran and got its
\* last_run, and a disabled task that was due was left alone.
C40_Witness ==
    /\ failed # {} /\ invoked \ failed # {}
    /\ \E n \in (invoked \ failed) \cap DOMAIN tasks :
          tasks[n].last_run = checked_at
    /\ \E n \in failed \cap DOMAIN tasks :
          tasks[n].last_run \notin {NoRun, checked_at}
    /\ \E n \in DOMAIN tasks \ invoked :
          ~tasks[n].enabled /\ ShouldRun(tasks[n], checked_at)

====
